---- MODULE Spec2Model ----
(***************************************************************************)
(* Model of the SpotyFire backend.                                         *)
(*                                                                         *)
(* Part 1: the alert proximity monitor                                     *)
(*   app/services/alert_notifier.py  (start_alert_monitoring,              *)
(*                                    check_alerts_for_users)              *)
(*   app/services/email_service.py   (send_alert_email)                    *)
(*   app/database.py                 (get_db_session)                      *)
(*                                                                         *)
(* Part 2: the change-detection estimator                                  *)
(*   app/services/gee_service.py     (init_gee, analyze_farm,              *)
(*                                    analyze_property_gee,                *)
(*                                    analyze_property_gee_comparison)     *)
(*   app/routes/satellite.py         (analyze_property_damage)             *)
(*                                                                         *)
(* Part 3: the property, geometry and analysis tables                      *)
(*   app/routes/property.py          (create, update, delete, read)        *)
(*   app/routes/satellite.py         (analyze_property_damage, whole)      *)
(*                                                                         *)
(* Part 4: the hotspot ingestion                                           *)
(*   app/services/firms.py           (FIRMSClient, get_fire_data)          *)
(*                                                                         *)
(* Part 5: the distance of the alerts route                                *)
(*   app/routes/alerts.py            (calculate_distance_km)               *)
(*                                                                         *)
(* Part 6: analysis requests on the event loop                             *)
(*   app/routes/satellite.py, app/services/gee_service.py (init_gee)       *)
(*                                                                         *)
(* Coordinates of Part 1: every point lies on one meridian (lng = 0),      *)
(* and a latitude is given as the length in metres of the meridian arc     *)
(* from the equator.  On one meridian the haversine formula of             *)
(* calculate_distance_km gives R * |lat2 - lat1| (in radians), which is    *)
(* the difference of the two arc lengths, so distances are integers in     *)
(* metres.  10.0 km is 10000, 20.0 km is 20000.                            *)
(***************************************************************************)
EXTENDS Integers, Sequences, FiniteSets, TLC

\* ------------------------------------------------------------------------
\* Bounds of the model
\* ------------------------------------------------------------------------
MaxAlerts == 2      \* rows of the alerts table in the general scenarios
MaxProps  == 3      \* rows of the properties table in the general scenarios
BigAlerts == 11     \* rows of the alerts table in the many-alerts scenarios

\* ------------------------------------------------------------------------
\* Program constants
\* ------------------------------------------------------------------------
None              == -1       \* a NULL column value
DefaultRadius     == 10000    \* 10.0 km
ExtendedProximity == 20000    \* 20.0 km
MaxEmailRows      == 10       \* alert_data[:10]

\* None for a string column.
NoneStr == "None"

Users == {"u1", "u2"}

\* ------------------------------------------------------------------------
\* Pure helpers
\* ------------------------------------------------------------------------
Abs(x) == IF x < 0 THEN -x ELSE x

Min(a, b) == IF a <= b THEN a ELSE b

Max(a, b) == IF a >= b THEN a ELSE b

\* Python truthiness of an Optional[float]: None and 0.0 are falsy.
Truthy(x) == x # None /\ x # 0

\* calculate_distance_km for two points of the meridian.
calculate_distance_km(lat1, lng1, lat2, lng2) == Abs(lat2 - lat1)

\* round(distance, 2): kilometres to two decimals, i.e. to the nearest
\* 10 m (ties to even).
Round2(d) ==
    LET q == d \div 10
        r == d % 10
    IN  IF r < 5 THEN q * 10
        ELSE IF r > 5 THEN (q + 1) * 10
        ELSE IF q % 2 = 0 THEN q * 10 ELSE (q + 1) * 10

\* proximity_threshold = alert.radius_km if alert.radius_km else 10.0
ProximityThreshold(radius_km) ==
    IF Truthy(radius_km) THEN radius_km ELSE DefaultRadius

\* Variant of IsNearby without the 20 km floor.
IsNearby_NoFloor(distance, radius_km) ==
    distance <= ProximityThreshold(radius_km)

\* if distance <= proximity_threshold or distance <= 20.0
IsNearby(distance, radius_km) ==
    distance <= ProximityThreshold(radius_km) \/ distance <= ExtendedProximity

\* 'is_within_radius': distance <= (alert.radius_km or 10.0)
IsWithinRadius(distance, radius_km) ==
    distance <= (IF Truthy(radius_km) THEN radius_km ELSE DefaultRadius)

\* An address prefix + id + "@" + domain is the record [prefix, id, domain];
\* the empty string is NoEmail.
NoEmail == [prefix |-> "", id |-> "", domain |-> ""]

\* f"user-{user_id[:8]}@example.com"
SyntheticEmail(user_id) ==
    [prefix |-> "user-", id |-> user_id, domain |-> "example.com"]

\* What the user directory answers to one request.
Responses == {"exception", "non200", "no_email", "email", "email_at_example"}

\* get_user_email_from_stack: the address it returns for a directory answer.
get_user_email_from_stack(user_id, response) ==
    CASE response = "email" ->
             [prefix |-> "", id |-> user_id, domain |-> "mail.test"]
      [] response = "email_at_example" ->
             [prefix |-> "", id |-> user_id, domain |-> "example.com"]
      [] response = "no_email"  -> SyntheticEmail(user_id)
      [] response = "non200"    -> SyntheticEmail(user_id)
      [] response = "exception" -> SyntheticEmail(user_id)

\* Variant of IsDeliverable that accepts every non-empty address.
IsDeliverable_AnyAddress(email) == email # NoEmail

\* user_email and not user_email.endswith("@example.com")
IsDeliverable(email) == email # NoEmail /\ email.domain # "example.com"

\* alert_data[:10]
RenderedRows(alert_data) ==
    SubSeq(alert_data, 1, Min(MaxEmailRows, Len(alert_data)))

Indices(s) == [i \in 1..Len(s) |-> i]

\* ------------------------------------------------------------------------
\* Part 2: the change-detection estimator, app/services/gee_service.py
\*
\* Units: aggregated areas are integers in square metres; a value rounded
\* to two decimals of a hectare is an integer number of hundredths of a
\* hectare (100 m2); a percentage rounded to two decimals is an integer
\* number of hundredths of a percent (100 % is 10000).
\* ------------------------------------------------------------------------
WindowDays == 30          \* advance(30, 'day') and timedelta(days=30)

\* A date string "%Y-%m-%d" is the triple <<year, month, day>>; a datetime
\* is the number of days since 2023-01-01.
IsLeap(y) == (y % 4 = 0 /\ y % 100 # 0) \/ y % 400 = 0

DaysInMonth(y, m) ==
    IF m = 2 THEN (IF IsLeap(y) THEN 29 ELSE 28)
    ELSE IF m \in {4, 6, 9, 11} THEN 30 ELSE 31

DaysInYear(y) == IF IsLeap(y) THEN 366 ELSE 365

RECURSIVE DaysBeforeYear(_)
DaysBeforeYear(y) ==
    IF y <= 2023 THEN 0 ELSE DaysBeforeYear(y - 1) + DaysInYear(y - 1)

RECURSIVE DaysBeforeMonth(_, _)
DaysBeforeMonth(y, m) ==
    IF m <= 1 THEN 0 ELSE DaysBeforeMonth(y, m - 1) + DaysInMonth(y, m - 1)

\* datetime.strptime(s, "%Y-%m-%d")
strptime(s) == DaysBeforeYear(s[1]) + DaysBeforeMonth(s[1], s[2]) + (s[3] - 1)

RECURSIVE YearOf(_, _)
YearOf(n, y) == IF n < DaysInYear(y) THEN <<y, n>> ELSE YearOf(n - DaysInYear(y), y + 1)

RECURSIVE MonthOf(_, _, _)
MonthOf(n, y, m) ==
    IF n < DaysInMonth(y, m) THEN <<m, n>> ELSE MonthOf(n - DaysInMonth(y, m), y, m + 1)

\* dt.strftime("%Y-%m-%d")
strftime(n) ==
    LET yn == YearOf(n, 2023)
        mn == MonthOf(yn[2], yn[1], 1)
    IN  <<yn[1], mn[1], mn[2] + 1>>

\* get_mosaic(date_str): the date window of the composite it builds,
\* filterDate(date_str, ee.Date(date_str).advance(30, 'day')).
get_mosaic(date_str) ==
    [start |-> strptime(date_str), end |-> strptime(date_str) + WindowDays]

\* x or 0.0 for the number returned by getInfo()
OrZero(x) == IF Truthy(x) THEN x ELSE 0

\* n / d rounded to the nearest integer, ties to even (n >= 0, d > 0).
RoundDiv(n, d) ==
    LET q == n \div d
        r == n % d
    IN  IF 2 * r < d THEN q
        ELSE IF 2 * r > d THEN q + 1
        ELSE IF q % 2 = 0 THEN q ELSE q + 1

\* round(d_ha, 2) with d_ha = m2 / 10000.0
RoundHa(m2) == RoundDiv(m2, 100)

\* Variant of FarmPercent that scales the fraction by 100 twice.
FarmPercent_UnitSlip(d_m2, t_m2) ==
    IF t_m2 > 0 THEN RoundDiv(d_m2 * 10000, t_m2) * 100 ELSE 0

\* round(pct, 2) with pct = (d_ha / t_ha * 100.0) if t_ha > 0 else 0.0
FarmPercent(d_m2, t_m2) ==
    IF t_m2 > 0 THEN RoundDiv(d_m2 * 10000, t_m2) ELSE 0

\* The overlay field of a result: EmptyOverlay is '', NoneOverlay is None,
\* any other value names the image fetched.
EmptyOverlay == "empty"

NoneOverlay == "None"

\* What requests.get(tile_url) does.
OverlayOutcomes == {"http_200", "http_error", "exception"}

\* overlay_b64 after the try block around the fetch of run k.
FetchedOverlay(k, fetch) ==
    IF fetch = "http_200" THEN (IF k = 1 THEN "image_1" ELSE "image_2")
    ELSE NoneOverlay

\* The dict analyze_farm returns when a composite has no band.
FarmNoData ==
    [error |-> TRUE, damage_percent |-> 0, damaged_area_ha |-> 0,
     total_area_ha |-> 0, overlay_b64 |-> EmptyOverlay]

\* The dict analyze_farm returns after the reductions and the fetch.
FarmResult(k, d_m2, t_m2, fetch) ==
    [error |-> FALSE,
     damageAreaHa  |-> RoundHa(OrZero(d_m2)),
     farmAreaHa    |-> RoundHa(OrZero(t_m2)),
     damagePercent |-> FarmPercent(OrZero(d_m2), OrZero(t_m2)),
     overlay_b64   |-> FetchedOverlay(k, fetch)]

\* Variant of FloatAbsDiff that keeps the sign of the difference.
FloatAbsDiff_Signed(a, b) ==
    [cents |-> b - a,
     err   |-> IF {a, b} = {10, 30} THEN -1 ELSE 0]

\* A float that is the decimal cents/100, or its neighbour below (err = -1)
\* or above (err = 1).  abs(damage_after - damage_before) on two doubles
\* that are decimals with two digits: IEEE-754 subtraction gives
\* 0.19999999999999998 for 0.3 - 0.1, and the exact double of the decimal
\* for the other values of AreasM2.
FloatAbsDiff(a, b) ==
    [cents |-> Abs(a - b),
     err   |-> IF {a, b} = {10, 30} THEN -1 ELSE 0]

\* A double read from a result dict.
FloatOf(cents) == [cents |-> cents, err |-> 0]

\* round(x, 2) returns the double of the decimal.
Round2F(x) == [cents |-> x.cents, err |-> 0]

\* damage_ha * cost_per_ha: the product in hundredths of a currency unit,
\* still off the product of the decimal when damage_ha is (and cost > 0).
FloatMul(x, cost_per_ha) ==
    [nominal |-> x.cents * cost_per_ha,
     err     |-> IF cost_per_ha = 0 THEN 0 ELSE x.err]

\* What init_gee meets when it has to initialize.
InitEnvs == {"key_missing", "credentials_error", "handshake_error", "ok"}

\* Variant of init_gee that does not look at the flag first.
init_gee_NoShortcut(initialized, env) ==
    [initialized        |-> env = "ok",
     returned           |-> env = "ok",
     loaded_credentials |-> env # "key_missing",
     handshake          |-> env \in {"handshake_error", "ok"},
     escaped            |-> FALSE]

\* Variant of init_gee that sets the flag before the handshake.
init_gee_FlagFirst(initialized, env) ==
    IF initialized
    THEN [initialized |-> TRUE, returned |-> TRUE, loaded_credentials |-> FALSE,
          handshake |-> FALSE, escaped |-> FALSE]
    ELSE [initialized        |-> env \in {"handshake_error", "ok"},
          returned           |-> env = "ok",
          loaded_credentials |-> env # "key_missing",
          handshake          |-> env \in {"handshake_error", "ok"},
          escaped            |-> FALSE]

\* init_gee(): the new value of _initialized, the value returned, whether
\* the credentials were loaded and the handshake attempted, and whether an
\* exception left the function.
init_gee(initialized, env) ==
    IF initialized
    THEN [initialized |-> TRUE, returned |-> TRUE, loaded_credentials |-> FALSE,
          handshake |-> FALSE, escaped |-> FALSE]
    ELSE [initialized        |-> env = "ok",
          returned           |-> env = "ok",
          loaded_credentials |-> env # "key_missing",
          handshake          |-> env \in {"handshake_error", "ok"},
          escaped            |-> FALSE]

\* Variant of NoBands that needs both composites to be empty.
NoBands_Both(before_band_count, after_band_count) ==
    before_band_count = 0 /\ after_band_count = 0

\* if before_band_count == 0 or after_band_count == 0
NoBands(before_band_count, after_band_count) ==
    before_band_count = 0 \/ after_band_count = 0

\* Variant of BothFailed that fails the comparison on one missing period.
BothFailed_Either(result_before, result_after) ==
    result_before.error \/ result_after.error

\* if 'error' in result_before and 'error' in result_after
BothFailed(result_before, result_after) ==
    result_before.error /\ result_after.error

\* result.get(key, 0) for the three numbers of a run.
GetDamageAreaHa(r) == IF r.error THEN 0 ELSE r.damageAreaHa

GetFarmAreaHa(r) == IF r.error THEN 0 ELSE r.farmAreaHa

GetDamagePercent(r) == IF r.error THEN 0 ELSE r.damagePercent

\* round(damage_pct, 2), damage_pct = (damage_ha / total_ha * 100) if total_ha > 0 else 0
ComparisonPercent(damage_ha, total_ha) ==
    IF total_ha > 0 THEN RoundDiv(damage_ha.cents * 10000, total_ha) ELSE 0

\* The dict returned after the branches on the two runs.
ComparisonDict(damage_ha, total_ha, damage_pct, overlay_before, overlay_after, before_date, after_date, incident_date, cost_per_ha) ==
    [error              |-> FALSE,
     damage_percent     |-> damage_pct,
     damaged_area_ha    |-> Round2F(damage_ha).cents,
     total_area_ha      |-> total_ha,
     estimated_cost     |-> FloatMul(damage_ha, cost_per_ha),
     overlay_before_b64 |-> overlay_before,
     overlay_after_b64  |-> overlay_after,
     before_date        |-> before_date,
     after_date         |-> after_date,
     incident_date      |-> incident_date]

\* Variant of ComparisonResult without the two one-period branches.
ComparisonResult_NoSingleBranches(result_before, result_after, before_date, after_date, incident_date, cost_per_ha) ==
    IF BothFailed(result_before, result_after)
    THEN [error |-> TRUE, damage_percent |-> 0, damaged_area_ha |-> 0,
          total_area_ha |-> 0, estimated_cost |-> [nominal |-> 0, err |-> 0],
          overlay_before_b64 |-> EmptyOverlay, overlay_after_b64 |-> EmptyOverlay,
          before_date |-> before_date, after_date |-> after_date,
          incident_date |-> incident_date]
    ELSE LET damage_ha == FloatAbsDiff(GetDamageAreaHa(result_before),
                                       GetDamageAreaHa(result_after))
             total_ha  == GetFarmAreaHa(result_after)
         IN  ComparisonDict(damage_ha, total_ha,
                            ComparisonPercent(damage_ha, total_ha),
                            result_before.overlay_b64, result_after.overlay_b64,
                            before_date, after_date, incident_date, cost_per_ha)

\* analyze_property_gee_comparison after the two runs of analyze_farm.
ComparisonResult(result_before, result_after, before_date, after_date, incident_date, cost_per_ha) ==
    IF BothFailed(result_before, result_after)
    THEN [error |-> TRUE, damage_percent |-> 0, damaged_area_ha |-> 0,
          total_area_ha |-> 0, estimated_cost |-> [nominal |-> 0, err |-> 0],
          overlay_before_b64 |-> EmptyOverlay, overlay_after_b64 |-> EmptyOverlay,
          before_date |-> before_date, after_date |-> after_date,
          incident_date |-> incident_date]
    ELSE IF result_before.error
    THEN ComparisonDict(FloatOf(GetDamageAreaHa(result_after)),
                        GetFarmAreaHa(result_after),
                        GetDamagePercent(result_after),
                        EmptyOverlay, result_after.overlay_b64,
                        before_date, after_date, incident_date, cost_per_ha)
    ELSE IF result_after.error
    THEN ComparisonDict(FloatOf(GetDamageAreaHa(result_before)),
                        GetFarmAreaHa(result_before),
                        GetDamagePercent(result_before),
                        result_before.overlay_b64, EmptyOverlay,
                        before_date, after_date, incident_date, cost_per_ha)
    ELSE LET damage_ha == FloatAbsDiff(GetDamageAreaHa(result_before),
                                       GetDamageAreaHa(result_after))
             total_ha  == GetFarmAreaHa(result_after)
         IN  ComparisonDict(damage_ha, total_ha,
                            ComparisonPercent(damage_ha, total_ha),
                            result_before.overlay_b64, result_after.overlay_b64,
                            before_date, after_date, incident_date, cost_per_ha)

\* analyze_property_gee after its run of analyze_farm.
SingleResult(result, cost_per_ha) ==
    IF result.error
    THEN [error |-> TRUE,
          damage_percent  |-> result.damage_percent,
          damaged_area_ha |-> result.damaged_area_ha,
          total_area_ha   |-> result.total_area_ha,
          estimated_cost  |-> [nominal |-> 0, err |-> 0],
          overlay_b64     |-> result.overlay_b64]
    ELSE [error |-> FALSE,
          damage_percent  |-> result.damagePercent,
          damaged_area_ha |-> result.damageAreaHa,
          total_area_ha   |-> result.farmAreaHa,
          estimated_cost  |-> FloatMul(FloatOf(result.damageAreaHa), cost_per_ha),
          overlay_b64     |-> result.overlay_b64]

\* ------------------------------------------------------------------------
\* State
\* ------------------------------------------------------------------------
VARIABLES
    alerts_table,      \* storage: sequence of Alert rows
    properties_table,  \* storage: sequence of Property rows
    db_configured,     \* AsyncSessionLocal is not None
    pc,                \* position of the monitor task
    session_open,      \* the monitor's AsyncSession is open
    active_alerts,     \* local of check_alerts_for_users: ids of loaded alerts
    properties,        \* local: ids of loaded properties
    user_alerts_map,   \* local: dict in insertion order, <<[user_id, alert_data]>>
    idx,               \* position of the dispatch loop in user_alerts_map
    user_email,        \* local: address returned by get_user_email_from_stack
    alerts_loaded,     \* the alert query of this cycle has returned
    prop_queries,      \* number of property-table queries of this cycle
    resolved,          \* directory lookups of this cycle, <<[user_id, email]>>
    sent,              \* send_alert_email calls of this cycle
    outcome,           \* how the last cycle ended
    notified_before,   \* history: users whose send returned in an earlier cycle
    gee_initialized,   \* gee_service._initialized
    gpc,               \* position of the estimator request in flight
    req,               \* the request: mode, dates, cost_per_ha, and what the
                       \* remote service holds for it (total area, bands)
    run,               \* which call of analyze_farm is running (1 or 2)
    init_ok,           \* what init_gee returned to analyze_farm
    last_init,         \* the last call of init_gee of this request
    mosaics,           \* date windows of the composites built for this request
    reductions,        \* reduceRegion calls of this request
    overlay_fetches,   \* overlay downloads of this request
    cur_d_m2,          \* d_stats 'area' of the running call
    runs,              \* results of the finished calls of analyze_farm
    analysis_result,   \* what the estimator returned to its caller
    http_status,       \* answer of the analyze route
    property_rows,     \* storage: Property rows by id
    geometry_rows,     \* storage: Geometry rows by id
    analysis_rows,     \* storage: SatelliteAnalysis rows by id
    next_id,           \* number of primary keys handed out so far
    clock,             \* datetime.utcnow(), in ticks
    last_call,         \* the last handler of the property and analyze routes
    firms_client,      \* the FIRMSClient object in use
    firms_call,        \* the last call of the hotspot ingestion
    geo_call,          \* the last distance computation of the alerts route
    rpc,               \* position of each analysis request in the server
    loop_owner,        \* the request the event loop is running, if any
    init_calls         \* calls of init_gee that went past the flag check

vars == <<alerts_table, properties_table, db_configured, pc, session_open,
          active_alerts, properties, user_alerts_map, idx, user_email,
          alerts_loaded, prop_queries, resolved, sent, outcome,
          notified_before,
          gee_initialized, gpc, req, run, init_ok, last_init, mosaics,
          reductions, overlay_fetches, cur_d_m2, runs, analysis_result,
          http_status,
          property_rows, geometry_rows, analysis_rows, next_id, clock,
          last_call,
          firms_client, firms_call, geo_call, rpc, loop_owner, init_calls>>

monitorVars == <<alerts_table, properties_table, db_configured, pc,
                 session_open, active_alerts, properties, user_alerts_map,
                 idx, user_email, alerts_loaded, prop_queries, resolved, sent,
                 outcome, notified_before>>

estimatorVars == <<gee_initialized, gpc, req, run, init_ok, last_init, mosaics,
                   reductions, overlay_fetches, cur_d_m2, runs,
                   analysis_result, http_status>>

requestVars == <<gpc, req, run, init_ok, last_init, mosaics, reductions,
                 overlay_fetches, cur_d_m2, runs, analysis_result,
                 http_status>>

storeVars == <<property_rows, geometry_rows, analysis_rows, next_id, clock,
               last_call>>

firmsVars == <<firms_client, firms_call>>

\* The variables outside the monitor, the estimator and the tables.
geoVars == <<geo_call>>

raceVars == <<rpc, loop_owner, init_calls>>

otherVars == <<firmsVars, geoVars, raceVars>>

\* The variables of the parts that the monitor and the step-by-step
\* estimator do not touch.
extraVars == <<storeVars, otherVars>>

dbVars == <<alerts_table, properties_table, db_configured>>

\* Variant of IsActiveLocated that does not look at is_active.
IsActiveLocated_AnyState(row) == row.lat # None /\ row.lng # None

\* ------------------------------------------------------------------------
\* Queries and the scan of check_alerts_for_users
\* ------------------------------------------------------------------------
\* select(Alert).where(is_active == 1, lat IS NOT NULL, lng IS NOT NULL)
IsActiveLocated(row) == row.is_active = 1 /\ row.lat # None /\ row.lng # None

ActiveAlertsQuery(table) ==
    SelectSeq(Indices(table), LAMBDA i : IsActiveLocated(table[i]))

\* select(Property).where(center_lat IS NOT NULL, center_lng IS NOT NULL)
PropertiesQuery(table) ==
    SelectSeq(Indices(table),
              LAMBDA i : table[i].center_lat # None /\ table[i].center_lng # None)

Distance(p, a) ==
    calculate_distance_km(properties_table[p].center_lat,
                          properties_table[p].center_lng,
                          alerts_table[a].lat, alerts_table[a].lng)

\* The dict appended to nearby_alerts for one (property, alert) pair.
PairEntry(p, a) ==
    [alert            |-> a,
     property         |-> p,
     distance_km      |-> Round2(Distance(p, a)),
     is_within_radius |-> IsWithinRadius(Distance(p, a), alerts_table[a].radius_km)]

\* The inner loop: nearby_alerts of one property, in the order of the alerts.
RECURSIVE NearbyAlerts(_, _)
NearbyAlerts(p, as) ==
    IF as = <<>> THEN <<>>
    ELSE (IF IsNearby(Distance(p, Head(as)), alerts_table[Head(as)].radius_km)
          THEN <<PairEntry(p, Head(as))>> ELSE <<>>)
         \o NearbyAlerts(p, Tail(as))

HasKey(map, user_id) == \E i \in 1..Len(map) : map[i].user_id = user_id

KeyIndex(map, user_id) == CHOOSE i \in 1..Len(map) : map[i].user_id = user_id

\* Variant of ExtendMap that assigns instead of extending.
ExtendMap_Overwrite(map, user_id, nearby) ==
    IF HasKey(map, user_id)
    THEN [map EXCEPT ![KeyIndex(map, user_id)].alert_data = nearby]
    ELSE Append(map, [user_id |-> user_id, alert_data |-> nearby])

\* if user_id not in map: map[user_id] = []; map[user_id].extend(nearby)
ExtendMap(map, user_id, nearby) ==
    IF HasKey(map, user_id)
    THEN [map EXCEPT ![KeyIndex(map, user_id)].alert_data = @ \o nearby]
    ELSE Append(map, [user_id |-> user_id, alert_data |-> nearby])

\* The outer loop over the loaded properties.
RECURSIVE BuildMap(_, _, _)
BuildMap(map, ps, as) ==
    IF ps = <<>> THEN map
    ELSE LET nearby == NearbyAlerts(Head(ps), as)
             user_id == properties_table[Head(ps)].user_id
         IN  BuildMap(IF nearby # <<>> THEN ExtendMap(map, user_id, nearby)
                      ELSE map,
                      Tail(ps), as)

\* ------------------------------------------------------------------------
\* Initial states: the storage contents the monitor can meet
\* ------------------------------------------------------------------------
AlertRow(act, lat, lng, rad) ==
    [is_active |-> act, lat |-> lat, lng |-> lng, radius_km |-> rad]

PropertyRow(u, lat) == [user_id |-> u, center_lat |-> lat, center_lng |-> 0]

GeneralAlertRows ==
    { AlertRow(0, 0, 0, None),          \* dismissed, next to the properties
      AlertRow(1, None, 0, 10000),      \* no latitude
      AlertRow(1, 0, None, 10000),      \* no longitude
      AlertRow(1, 5000, 0, None),
      AlertRow(1, 25000, 0, 10000) }

GeneralPropertyRows == { PropertyRow(u, lat) : u \in Users, lat \in {0, 10000} }

PairLats == {0, 5000, 9996, 10004, 15000, 19996, 20000, 20004, 25000,
             29996, 30004, 35000}

PairRadii == {None, 0, 5000, 10000, 30000}

SeqsUpTo(S, n) == UNION { [1..k -> S] : k \in 0..n }

InitGeneral ==
    /\ alerts_table \in SeqsUpTo(GeneralAlertRows, MaxAlerts)
    /\ properties_table \in SeqsUpTo(GeneralPropertyRows, MaxProps)

InitPair ==
    /\ alerts_table \in { <<AlertRow(1, lat, 0, rad)>> :
                              lat \in PairLats, rad \in PairRadii }
    /\ properties_table = <<PropertyRow("u1", 0)>>

InitBig ==
    /\ alerts_table \in [1..BigAlerts -> { AlertRow(1, 5000, 0, 10000),
                                           AlertRow(1, 15000, 0, 10000) }]
    /\ properties_table = <<PropertyRow("u1", 0)>>

InitLocals ==
    /\ pc = "call"
    /\ session_open = FALSE
    /\ active_alerts = <<>>
    /\ properties = <<>>
    /\ user_alerts_map = <<>>
    /\ idx = 1
    /\ user_email = NoEmail
    /\ alerts_loaded = FALSE
    /\ prop_queries = 0
    /\ resolved = <<>>
    /\ sent = <<>>
    /\ outcome = "none"
    /\ notified_before = {}

\* No estimator request in flight, the client not initialized.
NoRequest == [mode |-> "none"]

NoInitCall == [called |-> FALSE]

NoResult == [returned |-> FALSE]

InitRequest ==
    /\ gpc = "idle"
    /\ req = NoRequest
    /\ run = 0
    /\ init_ok = FALSE
    /\ last_init = NoInitCall
    /\ mosaics = <<>>
    /\ reductions = 0
    /\ overlay_fetches = 0
    /\ cur_d_m2 = None
    /\ runs = <<>>
    /\ analysis_result = NoResult
    /\ http_status = 0

InitEstimator ==
    /\ gee_initialized = FALSE
    /\ InitRequest

\* No row in the property, geometry and analysis tables.
InitStoreEmpty ==
    /\ property_rows = <<>>
    /\ geometry_rows = <<>>
    /\ analysis_rows = <<>>
    /\ next_id = 0
    /\ clock = 0
    /\ last_call = [op |-> "none"]

\* ------------------------------------------------------------------------
\* Part 4: hotspot ingestion (app/services/firms.py)
\*
\* Latitudes and longitudes of fire points are thousandths of a degree,
\* brightness temperatures are tenths of a kelvin.  A date object is a
\* number of days as for the estimator, a date string a triple.
\* ------------------------------------------------------------------------
MaxDayRangeArg == 12      \* largest day_range handed to the constructor

DefaultSource  == "VIIRS_SNPP_NRT"
DefaultDayRange == 3
DefaultTimeout == 30

\* max(1, min(int(day_range), 10)) without the lower limit.
ClampDayRange_NoFloor(day_range) == Min(day_range, 10)

\* max(1, min(int(day_range), 10))
ClampDayRange(day_range) == Max(1, Min(day_range, 10))

\* FIRMSClient.__init__
FIRMSClient(api_key, source, day_range, timeout_seconds) ==
    [api_key         |-> IF api_key = NoneStr THEN "" ELSE api_key,
     source          |-> source,
     day_range       |-> ClampDayRange(day_range),
     timeout_seconds |-> timeout_seconds]

\* The two rows returned in place of feed data.
MockFires ==
    << [latitude |-> 45435, longitude |-> 27722, confidence |-> "high",
        bright_ti4 |-> 3205],
       [latitude |-> 45441, longitude |-> 27735, confidence |-> "nominal",
        bright_ti4 |-> 3152] >>

\* FIRMSClient._empty_frame: the four columns and no row.
_empty_frame == <<>>

FeedColumns == {"latitude", "longitude", "confidence", "bright_ti4", "acq_date"}

\* What requests.get and the feed can answer: the request raises, the
\* status is an error, the body is empty (read_csv raises), or the body is
\* a CSV table with some columns and some rows.
FeedResponses ==
    {[kind |-> "network_error"], [kind |-> "http_error"], [kind |-> "empty_body"]}
    \cup {[kind |-> "csv", columns |-> FeedColumns, nrows |-> n] : n \in 0..2}
    \cup {[kind |-> "csv", columns |-> FeedColumns \ {c}, nrows |-> 1] :
             c \in {"latitude", "longitude", "confidence", "bright_ti4"}}

\* The cell of column col in row i of the feed's table.
FeedValue(col, i) ==
    CASE col = "latitude"   -> 45000 + i
      [] col = "longitude"  -> 25000 + i
      [] col = "confidence" -> "low"
      [] OTHER              -> 3300 + i

\* df[["latitude", "longitude", "confidence", "bright_ti4"]] after the
\* missing optional columns were filled in.
SelectedFrame(response) ==
    [i \in 1..response.nrows |->
        [latitude   |-> FeedValue("latitude", i),
         longitude  |-> FeedValue("longitude", i),
         confidence |-> IF "confidence" \in response.columns
                        THEN FeedValue("confidence", i) ELSE "unknown",
         bright_ti4 |-> IF "bright_ti4" \in response.columns
                        THEN FeedValue("bright_ti4", i) ELSE 3000]]

\* The try block of get_active_fires: what the answer of the feed becomes.
ParseFeed(response) ==
    IF response.kind # "csv" THEN MockFires
    ELSE IF response.nrows = 0 \/ response.columns = {} THEN _empty_frame
    ELSE IF ~({"latitude", "longitude"} \subseteq response.columns)
         THEN _empty_frame
    ELSE SelectedFrame(response)

\* A date string that "%Y-%m-%d" parses.
ValidDateStr(s) ==
    /\ s[1] >= 2023
    /\ s[2] \in 1..12
    /\ s[3] \in 1..DaysInMonth(s[1], s[2])

\* Variant of get_active_fires that asks the feed before it looks at
\* the API key.
get_active_fires_KeyLast(self, bbox, end_date, today, response) ==
    IF Len(bbox) # 4
    THEN [raised |-> TRUE, frame |-> <<>>, requests |-> <<>>]
    ELSE [raised   |-> FALSE,
          frame    |-> IF self.api_key = "" THEN MockFires
                       ELSE ParseFeed(response),
          requests |-> << [api_key    |-> self.api_key,
                           source     |-> self.source,
                           area       |-> bbox,
                           day_range  |-> self.day_range,
                           start_date |-> strftime(today)] >>]

\* FIRMSClient.get_active_fires.  end_date is None, a date or a string;
\* today is date.today(), response the answer of the feed if it is asked.
get_active_fires(self, bbox, end_date, today, response) ==
    IF self.api_key = ""
    THEN [raised |-> FALSE, frame |-> MockFires, requests |-> <<>>]
    ELSE IF Len(bbox) # 4
    THEN [raised |-> TRUE, frame |-> <<>>, requests |-> <<>>]
    ELSE IF end_date.kind = "str" /\ ~ValidDateStr(end_date.text)
    THEN [raised |-> TRUE, frame |-> <<>>, requests |-> <<>>]
    ELSE LET end_date_obj == CASE end_date.kind = "none" -> today
                               [] end_date.kind = "date" -> end_date.days
                               [] OTHER -> strptime(end_date.text)
             start_date == end_date_obj - (self.day_range - 1)
             url == [api_key    |-> self.api_key,
                     source     |-> self.source,
                     area       |-> bbox,
                     day_range  |-> self.day_range,
                     start_date |-> strftime(start_date)]
         IN  [raised   |-> FALSE,
              frame    |-> ParseFeed(response),
              requests |-> <<url>>]

\* get_fire_data: a client with the default day_range, the date string
\* parsed or replaced by today, the rows turned into dicts.
get_fire_data(bbox, end_date, api_key, today, response) ==
    LET client == FIRMSClient(api_key, DefaultSource, DefaultDayRange,
                              DefaultTimeout)
        end_date_obj == IF ValidDateStr(end_date) THEN strptime(end_date)
                        ELSE today
        got == get_active_fires(client, bbox,
                                [kind |-> "date", days |-> end_date_obj],
                                today, response)
    IN  [raised      |-> got.raised,
         fire_points |-> [i \in 1..Len(got.frame) |->
                            [lat        |-> got.frame[i].latitude,
                             lon        |-> got.frame[i].longitude,
                             confidence |-> got.frame[i].confidence,
                             brightness |-> got.frame[i].bright_ti4]],
         requests    |-> got.requests]

\* The client that get_fire_data builds by default; no call made yet.
InitFirmsIdle ==
    /\ firms_client = FIRMSClient("", DefaultSource, DefaultDayRange, DefaultTimeout)
    /\ firms_call = [op |-> "none"]

\* No distance computed by the alerts route.
InitGeoIdle == geo_call = [op |-> "none"]

\* The analysis requests of the server; none has arrived.
Requests == {"r1", "r2", "r3"}

InitRaceIdle ==
    /\ rpc = [r \in Requests |-> "idle"]
    /\ loop_owner = "free"
    /\ init_calls = <<>>

InitOther == InitFirmsIdle /\ InitGeoIdle /\ InitRaceIdle

InitExtra == InitStoreEmpty /\ InitOther

Init ==
    /\ \/ db_configured = TRUE /\ (InitGeneral \/ InitPair \/ InitBig)
       \/ db_configured = FALSE /\ alerts_table = <<>> /\ properties_table = <<>>
    /\ InitLocals
    /\ InitEstimator
    /\ InitExtra


\* ------------------------------------------------------------------------
\* The monitor task: start_alert_monitoring and check_alerts_for_users
\* ------------------------------------------------------------------------
cycleLocals == <<active_alerts, properties, user_alerts_map, idx, user_email>>

cycleLog == <<alerts_loaded, prop_queries, resolved, sent>>

\* async for db in get_db_session(): the session is created and yielded.
AcquireSession ==
    /\ pc = "call"
    /\ db_configured
    /\ session_open' = TRUE
    /\ pc' = "load_alerts"
    /\ UNCHANGED <<dbVars, cycleLocals, cycleLog, outcome>>
    /\ UNCHANGED <<notified_before, estimatorVars, extraVars>>

\* Variant of AcquireSessionFails with no handler in the loop: the task dies.
AcquireSessionFails_Uncaught ==
    /\ pc = "call"
    /\ ~db_configured
    /\ outcome' = "loop_error"
    /\ pc' = "halted"
    /\ UNCHANGED <<dbVars, session_open, cycleLocals, cycleLog>>
    /\ UNCHANGED <<notified_before, estimatorVars, extraVars>>

\* get_db_session raises "Database not configured"; the exception leaves
\* check_alerts_for_users and is caught by the loop of
\* start_alert_monitoring, which goes on to sleep.
AcquireSessionFails ==
    /\ pc = "call"
    /\ ~db_configured
    /\ outcome' = "loop_error"
    /\ pc' = "sleep"
    /\ UNCHANGED <<dbVars, session_open, cycleLocals, cycleLog>>
    /\ UNCHANGED <<notified_before, estimatorVars, extraVars>>

\* Variant of LoadAlerts without the early return.
LoadAlerts_NoEarlyReturn ==
    /\ pc = "load_alerts"
    /\ active_alerts' = ActiveAlertsQuery(alerts_table)
    /\ alerts_loaded' = TRUE
    /\ pc' = "load_props"
    /\ UNCHANGED <<dbVars, session_open, properties, user_alerts_map, idx,
                   user_email, prop_queries, resolved, sent, outcome>>
    /\ UNCHANGED <<notified_before, estimatorVars, extraVars>>

\* The alert query returns; with no rows the handler returns at once.
LoadAlerts ==
    /\ pc = "load_alerts"
    /\ active_alerts' = ActiveAlertsQuery(alerts_table)
    /\ alerts_loaded' = TRUE
    /\ IF active_alerts' = <<>>
       THEN pc' = "finally" /\ outcome' = "no_alerts"
       ELSE pc' = "load_props" /\ UNCHANGED outcome
    /\ UNCHANGED <<dbVars, session_open, properties, user_alerts_map, idx,
                   user_email, prop_queries, resolved, sent>>
    /\ UNCHANGED <<notified_before, estimatorVars, extraVars>>

\* db.execute raises in the alert query.
LoadAlertsFails ==
    /\ pc = "load_alerts"
    /\ pc' = "except"
    /\ UNCHANGED <<dbVars, session_open, cycleLocals, cycleLog, outcome>>
    /\ UNCHANGED <<notified_before, estimatorVars, extraVars>>

\* The property query returns.
LoadProperties ==
    /\ pc = "load_props"
    /\ properties' = PropertiesQuery(properties_table)
    /\ prop_queries' = prop_queries + 1
    /\ pc' = "scan"
    /\ UNCHANGED <<dbVars, session_open, active_alerts, user_alerts_map, idx,
                   user_email, alerts_loaded, resolved, sent, outcome>>
    /\ UNCHANGED <<notified_before, estimatorVars, extraVars>>

\* db.execute raises in the property query.
LoadPropertiesFails ==
    /\ pc = "load_props"
    /\ prop_queries' = prop_queries + 1
    /\ pc' = "except"
    /\ UNCHANGED <<dbVars, session_open, cycleLocals, alerts_loaded, resolved,
                   sent, outcome>>
    /\ UNCHANGED <<notified_before, estimatorVars, extraVars>>

\* The nested loops over properties and alerts (no await inside).
Scan ==
    /\ pc = "scan"
    /\ user_alerts_map' = BuildMap(<<>>, properties, active_alerts)
    /\ idx' = 1
    /\ pc' = "notify"
    /\ UNCHANGED <<dbVars, session_open, active_alerts, properties, user_email,
                   cycleLog, outcome>>
    /\ UNCHANGED <<notified_before, estimatorVars, extraVars>>

\* An exception inside the nested loops (calculate_distance_km raising).
ScanFails ==
    /\ pc = "scan"
    /\ pc' = "except"
    /\ UNCHANGED <<dbVars, session_open, cycleLocals, cycleLog, outcome>>
    /\ UNCHANGED <<notified_before, estimatorVars, extraVars>>

\* user_email, user_name = await get_user_email_from_stack(user_id)
LookupUser ==
    /\ pc = "notify"
    /\ idx <= Len(user_alerts_map)
    /\ \E response \in Responses :
         LET user_id == user_alerts_map[idx].user_id
             email   == get_user_email_from_stack(user_id, response)
         IN  /\ user_email' = email
             /\ resolved' = Append(resolved,
                                   [user_id |-> user_id, email |-> email])
    /\ pc' = "dispatch"
    /\ UNCHANGED <<dbVars, session_open, active_alerts, properties,
                   user_alerts_map, idx, alerts_loaded, prop_queries, sent,
                   outcome>>
    /\ UNCHANGED <<notified_before, estimatorVars, extraVars>>

\* Variant of SendEmail that remembers who was notified: a user whose send
\* returned in an earlier cycle is passed over.
SendEmail_Deduplicated ==
    /\ pc = "dispatch"
    /\ IsDeliverable(user_email)
    /\ IF user_alerts_map[idx].user_id \in notified_before
       THEN UNCHANGED sent
       ELSE \E result \in {"returned", "raised"} :
              sent' = Append(sent,
                        [user_id    |-> user_alerts_map[idx].user_id,
                         to_email   |-> user_email,
                         alert_data |-> user_alerts_map[idx].alert_data,
                         rows       |-> RenderedRows(user_alerts_map[idx].alert_data),
                         result     |-> result])
    /\ idx' = idx + 1
    /\ pc' = "notify"
    /\ UNCHANGED <<dbVars, session_open, active_alerts, properties,
                   user_alerts_map, user_email, alerts_loaded, prop_queries,
                   resolved, outcome>>
    /\ UNCHANGED <<notified_before, estimatorVars, extraVars>>

\* Variant of SendEmail without the per-user handler: a raise reaches the
\* handler of the whole cycle.
SendEmail_Unisolated ==
    /\ pc = "dispatch"
    /\ IsDeliverable(user_email)
    /\ \E result \in {"returned", "raised"} :
         /\ sent' = Append(sent,
                        [user_id    |-> user_alerts_map[idx].user_id,
                         to_email   |-> user_email,
                         alert_data |-> user_alerts_map[idx].alert_data,
                         rows       |-> RenderedRows(user_alerts_map[idx].alert_data),
                         result     |-> result])
         /\ IF result = "raised"
            THEN pc' = "except" /\ UNCHANGED idx
            ELSE pc' = "notify" /\ idx' = idx + 1
    /\ UNCHANGED <<dbVars, session_open, active_alerts, properties,
                   user_alerts_map, user_email, alerts_loaded, prop_queries,
                   resolved, outcome>>
    /\ UNCHANGED <<notified_before, estimatorVars, extraVars>>

\* await send_alert_email(user_email, user_name, alert_data): it returns
\* (mail sent, or no SMTP credentials) or raises; the raise is caught by the
\* per-user handler and the loop goes on with the next user.
SendEmail ==
    /\ pc = "dispatch"
    /\ IsDeliverable(user_email)
    /\ \E result \in {"returned", "raised"} :
         sent' = Append(sent,
                        [user_id    |-> user_alerts_map[idx].user_id,
                         to_email   |-> user_email,
                         alert_data |-> user_alerts_map[idx].alert_data,
                         rows       |-> RenderedRows(user_alerts_map[idx].alert_data),
                         result     |-> result])
    /\ idx' = idx + 1
    /\ pc' = "notify"
    /\ UNCHANGED <<dbVars, session_open, active_alerts, properties,
                   user_alerts_map, user_email, alerts_loaded, prop_queries,
                   resolved, outcome>>
    /\ UNCHANGED <<notified_before, estimatorVars, extraVars>>

\* else: "Skipped user - no valid email"
SkipUser ==
    /\ pc = "dispatch"
    /\ ~IsDeliverable(user_email)
    /\ idx' = idx + 1
    /\ pc' = "notify"
    /\ UNCHANGED <<dbVars, session_open, active_alerts, properties,
                   user_alerts_map, user_email, cycleLog, outcome>>
    /\ UNCHANGED <<notified_before, estimatorVars, extraVars>>

\* The dispatch loop is exhausted: "Alert notification check completed".
NotifyDone ==
    /\ pc = "notify"
    /\ idx > Len(user_alerts_map)
    /\ outcome' = "completed"
    /\ pc' = "finally"
    /\ UNCHANGED <<dbVars, session_open, cycleLocals, cycleLog>>
    /\ UNCHANGED <<notified_before, estimatorVars, extraVars>>

\* Variant of HandleCycleError where the session is closed on the success
\* path only.
HandleCycleError_NoClose ==
    /\ pc = "except"
    /\ outcome' = "failed"
    /\ pc' = "sleep"
    /\ UNCHANGED <<dbVars, session_open, cycleLocals, cycleLog>>
    /\ UNCHANGED <<notified_before, estimatorVars, extraVars>>

\* except Exception as e: "Error during alert check"
HandleCycleError ==
    /\ pc = "except"
    /\ outcome' = "failed"
    /\ pc' = "finally"
    /\ UNCHANGED <<dbVars, session_open, cycleLocals, cycleLog>>
    /\ UNCHANGED <<notified_before, estimatorVars, extraVars>>

\* finally: await db.close(); check_alerts_for_users returns to the loop.
CloseSession ==
    /\ pc = "finally"
    /\ session_open' = FALSE
    /\ pc' = "sleep"
    /\ UNCHANGED <<dbVars, cycleLocals, cycleLog, outcome>>
    /\ UNCHANGED <<notified_before, estimatorVars, extraVars>>

\* await asyncio.sleep(interval_minutes * 60), then the next iteration of
\* while True; the locals of the finished call are gone.
Sleep ==
    /\ pc = "sleep"
    /\ pc' = "call"
    /\ active_alerts' = <<>>
    /\ properties' = <<>>
    /\ user_alerts_map' = <<>>
    /\ idx' = 1
    /\ user_email' = NoEmail
    /\ alerts_loaded' = FALSE
    /\ prop_queries' = 0
    /\ resolved' = <<>>
    /\ sent' = <<>>
    /\ outcome' = "none"
    /\ notified_before' = notified_before \cup
           { sent[i].user_id : i \in { j \in 1..Len(sent) : sent[j].result = "returned" } }
    /\ UNCHANGED <<dbVars, session_open, estimatorVars, extraVars>>

Next ==
    \/ AcquireSession
    \/ AcquireSessionFails
    \/ LoadAlerts
    \/ LoadAlertsFails
    \/ LoadProperties
    \/ LoadPropertiesFails
    \/ Scan
    \/ ScanFails
    \/ LookupUser
    \/ SendEmail
    \/ SkipUser
    \/ NotifyDone
    \/ HandleCycleError
    \/ CloseSession
    \/ Sleep

Spec == Init /\ [][Next]_vars


\* The monitor task is scheduled by the event loop whenever it can run, and
\* every await of the cycle (queries, lookups, sends, sleep) returns or raises.
\* The storage contents are those of the general scenarios with at most
\* one alert row.
InitLive ==
    /\ \/ /\ db_configured = TRUE
          /\ alerts_table \in SeqsUpTo(GeneralAlertRows, 1)
          /\ properties_table \in SeqsUpTo(GeneralPropertyRows, MaxProps)
       \/ db_configured = FALSE /\ alerts_table = <<>> /\ properties_table = <<>>
    /\ InitLocals
    /\ InitEstimator
    /\ InitExtra

FairSpec == InitLive /\ [][Next]_vars /\ WF_vars(Next)

\* ------------------------------------------------------------------------
\* The estimator: one request at a time through analyze_farm
\* ------------------------------------------------------------------------
\* Incident dates of comparison requests, and the date pair of single-window
\* requests ("%Y-%m-%d" strings as triples).
IncidentDates == {<<2024, 9, 15>>, <<2024, 3, 15>>, <<2024, 12, 20>>}

SingleDates == {<<<<2024, 1, 10>>, <<2024, 3, 15>>>>}

\* cost_per_ha of the request: 5000 is the default of the route and of the
\* two entry points.
Costs == {0, 5000}

\* Aggregated areas the remote reductions return, in square metres; None
\* is a reduction over no pixel.
AreasM2 == {0, 40, 1000, 3000, 20000}

TotalChoices == {None} \cup AreasM2

\* The changed pixels lie inside the farm: their area is at most the total.
DamagedChoices(t_m2) == {None} \cup {d \in AreasM2 : d <= OrZero(t_m2)}

\* before_date and after_date of analyze_property_gee_comparison
BeforeDate(incident_date) == strftime(strptime(incident_date) - WindowDays)

AfterDate(incident_date) == strftime(strptime(incident_date) + WindowDays)

\* The (before_date, after_date) arguments of call k of analyze_farm.
RunDates(r, k) ==
    IF r.mode = "single" THEN <<r.pre_date, r.post_date>>
    ELSE IF k = 1 THEN <<r.before_date, r.incident_date>>
    ELSE <<r.incident_date, r.after_date>>

\* bandNames().size().getInfo() of a composite: what the collection holds
\* for the window that starts at the composite's date.
BandCount(r, mosaic) == r.bands[mosaic.start]

StartComparison ==
    /\ gpc = "idle"
    /\ \E incident_date \in IncidentDates, cost_per_ha \in Costs,
          t_m2 \in TotalChoices :
         LET before_date == BeforeDate(incident_date)
             after_date  == AfterDate(incident_date)
             starts == {strptime(before_date), strptime(incident_date),
                        strptime(after_date)}
         IN  \E bands \in [starts -> {0, 2}] :
                req' = [mode |-> "comparison", incident_date |-> incident_date,
                        before_date |-> before_date, after_date |-> after_date,
                        cost_per_ha |-> cost_per_ha, geometry_is_dict |-> TRUE,
                        t_m2 |-> t_m2, bands |-> bands]
    /\ run' = 1
    /\ gpc' = "farm_init"
    /\ UNCHANGED <<monitorVars, extraVars, gee_initialized, init_ok, last_init, mosaics,
                   reductions, overlay_fetches, cur_d_m2, runs,
                   analysis_result, http_status>>

StartSingle ==
    /\ gpc = "idle"
    /\ \E dates \in SingleDates, cost_per_ha \in Costs, t_m2 \in TotalChoices,
          geometry_is_dict \in BOOLEAN :
         \E bands \in [{strptime(dates[1]), strptime(dates[2])} -> {0, 2}] :
            req' = [mode |-> "single", pre_date |-> dates[1],
                    post_date |-> dates[2], cost_per_ha |-> cost_per_ha,
                    geometry_is_dict |-> geometry_is_dict,
                    t_m2 |-> t_m2, bands |-> bands]
    /\ run' = 1
    /\ gpc' = "farm_init"
    /\ UNCHANGED <<monitorVars, extraVars, gee_initialized, init_ok, last_init, mosaics,
                   reductions, overlay_fetches, cur_d_m2, runs,
                   analysis_result, http_status>>

\* if not init_gee(): the call
InitGeeCall ==
    /\ gpc = "farm_init"
    /\ \E env \in InitEnvs :
         LET r == init_gee(gee_initialized, env)
         IN  /\ gee_initialized' = r.initialized
             /\ init_ok' = r.returned
             /\ last_init' = [called |-> TRUE, before |-> gee_initialized,
                              env |-> env, returned |-> r.returned,
                              loaded_credentials |-> r.loaded_credentials,
                              handshake |-> r.handshake, escaped |-> r.escaped]
             /\ gpc' = IF r.escaped THEN "raised" ELSE "farm_checked"
    /\ UNCHANGED <<monitorVars, extraVars, req, run, mosaics, reductions, overlay_fetches,
                   cur_d_m2, runs, analysis_result, http_status>>

\* Variant of FarmInitFailed that returns the no-data result instead.
FarmInitFailed_Degrades ==
    /\ gpc = "farm_checked"
    /\ ~init_ok
    /\ runs' = Append(runs, FarmNoData)
    /\ gpc' = "farm_returned"
    /\ UNCHANGED <<monitorVars, extraVars, gee_initialized, req, run, init_ok, last_init,
                   mosaics, reductions, overlay_fetches, cur_d_m2,
                   analysis_result, http_status>>

\* raise Exception("Google Earth Engine initialization failed")
FarmInitFailed ==
    /\ gpc = "farm_checked"
    /\ ~init_ok
    /\ gpc' = "raised"
    /\ UNCHANGED <<monitorVars, extraVars, gee_initialized, req, run, init_ok, last_init,
                   mosaics, reductions, overlay_fetches, cur_d_m2, runs,
                   analysis_result, http_status>>

\* raise ValueError("Invalid GeoJSON input")
GeometryRaises ==
    /\ gpc = "farm_checked"
    /\ init_ok
    /\ ~req.geometry_is_dict
    /\ gpc' = "raised"
    /\ UNCHANGED <<monitorVars, extraVars, gee_initialized, req, run, init_ok, last_init,
                   mosaics, reductions, overlay_fetches, cur_d_m2, runs,
                   analysis_result, http_status>>

\* The two composites of a call and the test of their band counts.
BuildComposites ==
    /\ gpc = "farm_checked"
    /\ init_ok
    /\ req.geometry_is_dict
    /\ LET dates  == RunDates(req, run)
           before == get_mosaic(dates[1])
           after  == get_mosaic(dates[2])
       IN  /\ mosaics' = mosaics \o <<before, after>>
           /\ IF NoBands(BandCount(req, before), BandCount(req, after))
              THEN /\ runs' = Append(runs, FarmNoData)
                   /\ gpc' = "farm_returned"
              ELSE /\ runs' = runs
                   /\ gpc' = "reduce"
    /\ UNCHANGED <<monitorVars, extraVars, gee_initialized, req, run, init_ok, last_init,
                   reductions, overlay_fetches, cur_d_m2, analysis_result,
                   http_status>>

\* d_stats and t_stats: the two reduceRegion(...).getInfo() calls
ReduceAreas ==
    /\ gpc = "reduce"
    /\ \E d_m2 \in DamagedChoices(req.t_m2) : cur_d_m2' = d_m2
    /\ reductions' = reductions + 2
    /\ gpc' = "fetch"
    /\ UNCHANGED <<monitorVars, extraVars, gee_initialized, req, run, init_ok, last_init,
                   mosaics, overlay_fetches, runs, analysis_result,
                   http_status>>

\* requests.get(tile_url) inside its try, then the result dict
FetchOverlay ==
    /\ gpc = "fetch"
    /\ \E fetch \in OverlayOutcomes :
         runs' = Append(runs, FarmResult(run, cur_d_m2, req.t_m2, fetch))
    /\ overlay_fetches' = overlay_fetches + 1
    /\ cur_d_m2' = None
    /\ gpc' = "farm_returned"
    /\ UNCHANGED <<monitorVars, extraVars, gee_initialized, req, run, init_ok, last_init,
                   mosaics, reductions, analysis_result, http_status>>

\* result_after = analyze_farm(geometry, incident_date, after_date)
SecondRun ==
    /\ gpc = "farm_returned"
    /\ req.mode = "comparison"
    /\ run = 1
    /\ run' = 2
    /\ gpc' = "farm_init"
    /\ UNCHANGED <<monitorVars, extraVars, gee_initialized, req, init_ok, last_init,
                   mosaics, reductions, overlay_fetches, cur_d_m2, runs,
                   analysis_result, http_status>>

\* analyze_property_gee_comparison after its two calls
Combine ==
    /\ gpc = "farm_returned"
    /\ req.mode = "comparison"
    /\ run = 2
    /\ analysis_result' =
          [returned |-> TRUE,
           value |-> ComparisonResult(runs[1], runs[2], req.before_date,
                                      req.after_date, req.incident_date,
                                      req.cost_per_ha)]
    /\ gpc' = "returned"
    /\ UNCHANGED <<monitorVars, extraVars, gee_initialized, req, run, init_ok, last_init,
                   mosaics, reductions, overlay_fetches, cur_d_m2, runs,
                   http_status>>

\* analyze_property_gee after its call
WrapSingle ==
    /\ gpc = "farm_returned"
    /\ req.mode = "single"
    /\ analysis_result' =
          [returned |-> TRUE, value |-> SingleResult(runs[1], req.cost_per_ha)]
    /\ gpc' = "returned"
    /\ UNCHANGED <<monitorVars, extraVars, gee_initialized, req, run, init_ok, last_init,
                   mosaics, reductions, overlay_fetches, cur_d_m2, runs,
                   http_status>>

\* analyze_property_damage: if 'error' in analysis_result: HTTPException(400);
\* otherwise the route goes on with the result.
RouteChecksResult ==
    /\ gpc = "returned"
    /\ req.mode = "comparison"
    /\ IF analysis_result.value.error
       THEN http_status' = 400 /\ gpc' = "done"
       ELSE http_status' = http_status /\ gpc' = "accepted"
    /\ UNCHANGED <<monitorVars, extraVars, gee_initialized, req, run, init_ok, last_init,
                   mosaics, reductions, overlay_fetches, cur_d_m2, runs,
                   analysis_result>>

\* The request is over; _initialized lives on in the process.
FinishRequest ==
    /\ \/ gpc \in {"done", "accepted", "raised"}
       \/ gpc = "returned" /\ req.mode = "single"
    /\ gpc' = "idle"
    /\ req' = NoRequest
    /\ run' = 0
    /\ init_ok' = FALSE
    /\ last_init' = NoInitCall
    /\ mosaics' = <<>>
    /\ reductions' = 0
    /\ overlay_fetches' = 0
    /\ cur_d_m2' = None
    /\ runs' = <<>>
    /\ analysis_result' = NoResult
    /\ http_status' = 0
    /\ UNCHANGED <<monitorVars, extraVars, gee_initialized>>

InitGee ==
    /\ db_configured = FALSE
    /\ alerts_table = <<>>
    /\ properties_table = <<>>
    /\ InitLocals
    /\ InitEstimator
    /\ InitExtra

NextGee ==
    \/ StartComparison
    \/ StartSingle
    \/ InitGeeCall
    \/ FarmInitFailed
    \/ GeometryRaises
    \/ BuildComposites
    \/ ReduceAreas
    \/ FetchOverlay
    \/ SecondRun
    \/ Combine
    \/ WrapSingle
    \/ RouteChecksResult
    \/ FinishRequest

SpecGee == InitGee /\ [][NextGee]_vars

\* ------------------------------------------------------------------------
\* Properties
\* ------------------------------------------------------------------------
Range(s) == { s[i] : i \in 1..Len(s) }

\* The nested loops of the current cycle have run to their end.
ScanDone ==
    \/ pc \in {"notify", "dispatch"}
    \/ pc \in {"finally", "sleep"} /\ outcome = "completed"

\* All entries of user_alerts_map.
MapEntries ==
    UNION { Range(user_alerts_map[i].alert_data) : i \in 1..Len(user_alerts_map) }

InMap(p, a) == \E e \in MapEntries : e.property = p /\ e.alert = a

SentTo(u) == { i \in 1..Len(sent) : sent[i].user_id = u }

\* C1: the monitor loop never halts because of a failed cycle: every cycle
\* that begins reaches the sleep of the loop, an exception inside the cycle
\* is caught and the cycle ends as failed, and after the sleep that follows
\* any cycle (completed, empty, failed, or failed before the session) a
\* next cycle begins.
C1_LoopNeverHalts ==
    /\ (pc = "call") ~> (pc = "sleep")
    /\ (pc = "except") ~> (pc = "sleep" /\ outcome = "failed")
    /\ \A o \in {"completed", "no_alerts", "failed", "loop_error"} :
         (pc = "sleep" /\ outcome = o) ~> (pc = "call")

\* A cycle that failed in the scan has reached the sleep of the loop.
C1_Witness == pc = "sleep" /\ outcome = "failed" /\ active_alerts # <<>>

\* The relevant pairs of the properties of user u, over the alerts and
\* properties loaded in this cycle.
ExpectedPairs(u) ==
    { PairEntry(p, a) : <<p, a>> \in
        { pa \in Range(properties) \X Range(active_alerts) :
            /\ properties_table[pa[1]].user_id = u
            /\ IsNearby(Distance(pa[1], pa[2]), alerts_table[pa[2]].radius_km) } }

ResolvedReal(u) ==
    \E j \in 1..Len(resolved) :
        /\ resolved[j].user_id = u
        /\ resolved[j].email.domain # "example.com"

\* C2: no user gets two dispatches in one cycle, and when the cycle has
\* completed, every user with at least one relevant pair and a real
\* address got exactly one send_alert_email call whose list holds every
\* relevant pair of all their properties and all loaded alerts, each once.
C2_OneDispatchPerUser ==
    /\ \A u \in Users : Cardinality(SentTo(u)) <= 1
    /\ outcome = "completed" =>
         \A u \in Users :
            (ExpectedPairs(u) # {} /\ ResolvedReal(u)) =>
                /\ Cardinality(SentTo(u)) = 1
                /\ \A i \in SentTo(u) :
                     /\ Range(sent[i].alert_data) = ExpectedPairs(u)
                     /\ Len(sent[i].alert_data) = Cardinality(ExpectedPairs(u))

\* Two users were notified, one of them about two properties and two alerts.
C2_Witness ==
    /\ outcome = "completed"
    /\ Len(sent) = 2
    /\ \E i \in 1..Len(sent) :
         /\ Len(sent[i].alert_data) = 4
         /\ Cardinality({ e.property : e \in Range(sent[i].alert_data) }) = 2
         /\ Cardinality({ e.alert : e \in Range(sent[i].alert_data) }) = 2

\* Relevance as the specification words it.
SpecRelevant(distance, radius_km) ==
    \/ distance <= Max(IF radius_km = None THEN 10000 ELSE radius_km, 10000)
    \/ distance <= 20000

\* C3: after the scan, a loaded (property, alert) pair is in the map iff
\* distance <= max(radius, 10 km) or distance <= 20 km, a missing radius
\* counting as 10 km; a pair at 25 km from an alert of radius 10 km is out.
C3_RelevantIff ==
    ScanDone =>
        \A p \in Range(properties) : \A a \in Range(active_alerts) :
            /\ InMap(p, a) <=> SpecRelevant(Distance(p, a), alerts_table[a].radius_km)
            /\ (Distance(p, a) = 25000 /\ alerts_table[a].radius_km = 10000)
                   => ~InMap(p, a)

\* A pair at 25 km from an alert of radius 10 km was scanned and left out.
C3_Witness ==
    /\ ScanDone
    /\ \E p \in Range(properties) : \E a \in Range(active_alerts) :
         /\ Distance(p, a) = 25000
         /\ alerts_table[a].radius_km = 10000
         /\ ~InMap(p, a)

\* C4: every relevant pair is tagged is_within_radius = (distance <=
\* alert.radius_km), with 10 km used when the alert has no radius.
C4_TagIsWithinRadius ==
    ScanDone =>
        \A e \in MapEntries :
            e.is_within_radius =
                (Distance(e.property, e.alert) <=
                    (IF alerts_table[e.alert].radius_km = None
                     THEN 10000 ELSE alerts_table[e.alert].radius_km))

IsSortedByDistance(rows) ==
    \A i \in 1..Len(rows) : \A j \in 1..Len(rows) :
        i < j => rows[i].distance_km <= rows[j].distance_km

\* C5: the rows rendered in a notification are in non-decreasing distance
\* order and are the (at most ten) closest pairs of the user's list.
C5_SortedAndCapped ==
    \A i \in 1..Len(sent) :
        /\ Len(sent[i].rows) = Min(10, Len(sent[i].alert_data))
        /\ IsSortedByDistance(sent[i].rows)
        /\ \A k \in 1..Len(sent[i].alert_data) :
              k > Len(sent[i].rows) =>
                 \A r \in Range(sent[i].rows) :
                    r.distance_km <= sent[i].alert_data[k].distance_km

\* C6: no send_alert_email call goes to an @example.com address or to an
\* empty one; a user whose lookup gave such an address gets no call; and a
\* completed cycle has looked up every user of the map, in order.
C6_NoPlaceholderDispatch ==
    /\ \A i \in 1..Len(sent) :
         /\ sent[i].to_email # NoEmail
         /\ sent[i].to_email.domain # "example.com"
    /\ \A j \in 1..Len(resolved) :
         resolved[j].email.domain = "example.com" =>
             SentTo(resolved[j].user_id) = {}
    /\ outcome = "completed" =>
         /\ Len(resolved) = Len(user_alerts_map)
         /\ \A j \in 1..Len(resolved) :
               resolved[j].user_id = user_alerts_map[j].user_id

\* The first user resolved to the synthetic address and was skipped, the
\* second one was notified.
C6_Witness ==
    /\ outcome = "completed"
    /\ Len(resolved) = 2
    /\ resolved[1].email = SyntheticEmail(resolved[1].user_id)
    /\ Len(sent) = 1
    /\ sent[1].user_id = resolved[2].user_id

\* C7: once send_alert_email has raised for a user, the cycle never enters
\* its error handler, and when it is over it has completed normally and
\* every other user of the map with a real address has had a send attempt.
C7_DispatchFailureIsolated ==
    (\E i \in 1..Len(sent) : sent[i].result = "raised") =>
        /\ pc # "except"
        /\ outcome # "failed"
        /\ pc = "sleep" =>
             /\ outcome = "completed"
             /\ \A k \in 1..Len(user_alerts_map) :
                  LET u == user_alerts_map[k].user_id
                  IN  /\ \E j \in 1..Len(resolved) : resolved[j].user_id = u
                      /\ ResolvedReal(u) => SentTo(u) # {}

\* The send to the first user raised and the second user was still served.
C7_Witness ==
    /\ pc = "sleep"
    /\ Len(sent) = 2
    /\ sent[1].result = "raised"
    /\ sent[2].result = "returned"

NoActiveLocatedAlert ==
    \A i \in 1..Len(alerts_table) :
        ~(/\ alerts_table[i].is_active = 1
          /\ alerts_table[i].lat # None
          /\ alerts_table[i].lng # None)

\* C8: a cycle whose alert query found no active located alert goes
\* straight to its end: no property query, no lookup, no dispatch.
C8_NoAlertsNoWork ==
    (alerts_loaded /\ NoActiveLocatedAlert) =>
        /\ pc \in {"finally", "sleep"}
        /\ prop_queries = 0
        /\ properties = <<>>
        /\ resolved = <<>>
        /\ sent = <<>>

\* A cycle over stored alerts (none active and located) and stored
\* properties has ended.
C8_Witness ==
    /\ pc = "sleep"
    /\ alerts_loaded
    /\ NoActiveLocatedAlert
    /\ Len(alerts_table) > 0
    /\ Len(properties_table) > 0

AlertsInUse ==
    Range(active_alerts)
      \cup { e.alert : e \in MapEntries }
      \cup UNION { { e.alert : e \in Range(sent[i].alert_data) } :
                   i \in 1..Len(sent) }

\* C9: every alert loaded by the cycle, paired in the map or carried by a
\* notification is active (is_active = 1) and has both lat and lng.
C9_OnlyActiveLocatedAlerts ==
    \A a \in AlertsInUse :
        /\ alerts_table[a].is_active = 1
        /\ alerts_table[a].lat # None
        /\ alerts_table[a].lng # None

\* A notification went out while a dismissed alert sits on one of the
\* notified user's properties.
C9_Witness ==
    /\ Len(sent) = 1
    /\ \E a \in 1..Len(alerts_table) : \E p \in 1..Len(properties_table) :
         /\ alerts_table[a].is_active = 0
         /\ properties_table[p].user_id = sent[1].user_id
         /\ alerts_table[a].lat = properties_table[p].center_lat

\* C10: the session is open exactly while a cycle runs: it is opened when
\* the cycle starts and is closed when control is back in the loop,
\* whatever way the cycle ended.
C10_SessionScopedToCycle ==
    /\ pc \in {"call", "sleep"} => ~session_open
    /\ pc \in {"load_alerts", "load_props", "scan", "notify", "dispatch",
               "except", "finally"} => session_open

\* Back in the loop after a cycle that failed after its property query.
C10_Witness ==
    /\ pc = "sleep"
    /\ outcome = "failed"
    /\ prop_queries = 1
    /\ ~session_open


\* C11: the monitor keeps no "already notified" state: a cycle starts with
\* nothing carried over from earlier cycles, and in a completed cycle a
\* user notified in an earlier cycle who still has a relevant pair and a
\* real address is sent the full list of relevant pairs again.
C11_RenotifiedEveryCycle ==
    /\ pc = "call" =>
         /\ sent = <<>> /\ resolved = <<>> /\ user_alerts_map = <<>>
         /\ active_alerts = <<>> /\ properties = <<>> /\ user_email = NoEmail
    /\ outcome = "completed" =>
         \A u \in notified_before :
            (ExpectedPairs(u) # {} /\ ResolvedReal(u)) =>
                \E i \in SentTo(u) :
                    Range(sent[i].alert_data) = ExpectedPairs(u)

\* Both users were notified in an earlier cycle and again in this one.
C11_Witness ==
    /\ outcome = "completed"
    /\ notified_before = Users
    /\ Len(sent) = 2
    /\ \A i \in 1..Len(sent) : sent[i].result = "returned"

\* ------------------------------------------------------------------------
\* Properties of the estimator
\* ------------------------------------------------------------------------
ZeroCost == [nominal |-> 0, err |-> 0]

\* A composite of the request has no band.
SomeWindowEmpty == \E start \in DOMAIN req.bands : req.bands[start] = 0

\* C12: in single-window mode, when the before or the after composite has
\* zero bands, the estimator does not raise once initialization and the
\* geometry went through: it returns damage percent 0, damaged area 0,
\* total area 0, estimated cost 0, an empty overlay and an error field, and
\* the request runs no area reduction and no overlay fetch.
C12_ZeroBandsSingleWindow ==
    (req.mode = "single" /\ SomeWindowEmpty) =>
        /\ reductions = 0
        /\ overlay_fetches = 0
        /\ (init_ok /\ req.geometry_is_dict) => gpc # "raised"
        /\ (init_ok /\ req.geometry_is_dict /\ Len(mosaics) = 2) =>
               gpc \in {"farm_returned", "returned"}
        /\ gpc = "returned" =>
               /\ analysis_result.value.error
               /\ analysis_result.value.damage_percent = 0
               /\ analysis_result.value.damaged_area_ha = 0
               /\ analysis_result.value.total_area_ha = 0
               /\ analysis_result.value.estimated_cost = ZeroCost
               /\ analysis_result.value.overlay_b64 = EmptyOverlay

C12_Witness ==
    /\ req.mode = "single"
    /\ gpc = "returned"
    /\ req.bands[strptime(req.pre_date)] = 2
    /\ req.bands[strptime(req.post_date)] = 0
    /\ req.cost_per_ha = 5000
    /\ req.t_m2 = 20000
    /\ analysis_result.value.error

\* C13: whenever init_gee returned false to analyze_farm, in single-window
\* and in comparison mode, the call raises before it builds a composite:
\* no composite, no reduction, no fetch and no result of that call exist,
\* the estimator returns nothing, and the only way on is the raise.
C13_InitFailureIsFatal ==
    (last_init.called /\ ~last_init.returned) =>
        /\ gpc \in {"farm_checked", "raised"}
        /\ Len(mosaics) = 2 * (run - 1)
        /\ Len(runs) = run - 1
        /\ reductions <= 2 * (run - 1)
        /\ overlay_fetches <= run - 1
        /\ ~analysis_result.returned
        /\ http_status = 0

C13_Witness ==
    /\ gpc = "raised"
    /\ req.mode = "comparison"
    /\ last_init.called
    /\ ~last_init.returned
    /\ last_init.env = "handshake_error"

\* C14: init_gee is idempotent: once the flag is set it is never cleared,
\* and a call made while it is set returns true without loading the
\* credentials and without the handshake, whatever the environment is.
C14_InitIdempotent ==
    [][/\ gee_initialized => gee_initialized'
       /\ (gpc = "farm_init" /\ gee_initialized) =>
              /\ last_init'.called
              /\ last_init'.returned
              /\ ~last_init'.loaded_credentials
              /\ ~last_init'.handshake
              /\ init_ok']_vars

C14_Witness ==
    /\ last_init.called
    /\ last_init.before
    /\ last_init.env = "key_missing"
    /\ last_init.returned
    /\ gee_initialized

\* C15: init_gee fails closed: when the key file is missing, the
\* credentials cannot be loaded or the handshake fails, the call returns
\* false, no exception leaves it and the client stays uninitialized; a call
\* made while uninitialized always attempts the initialization again (it
\* loads the credentials whenever the key file is there).
C15_InitFailsClosed ==
    /\ last_init.called => ~last_init.escaped
    /\ (last_init.called /\ ~last_init.before) =>
          /\ last_init.loaded_credentials = (last_init.env # "key_missing")
          /\ last_init.env # "ok" =>
                /\ ~last_init.returned
                /\ ~init_ok
                /\ ~gee_initialized

C15_Witness ==
    /\ last_init.called
    /\ ~last_init.before
    /\ last_init.env = "credentials_error"
    /\ ~last_init.returned
    /\ gpc = "farm_checked"

\* The percentages the estimator handed out so far in this request: those
\* of the finished calls of analyze_farm and that of the returned result.
ReturnedPercents ==
    { GetDamagePercent(runs[k]) : k \in 1..Len(runs) }
      \cup (IF analysis_result.returned
            THEN {analysis_result.value.damage_percent} ELSE {})

\* C16: with aggregated areas 0 <= damaged <= total, every damage percent
\* the estimator returns (single-window mode, each branch of comparison
\* mode, error results included) lies in [0, 100], and it is exactly 0
\* when the aggregated total area is 0 or missing.
C16_PercentInRange ==
    \A pct \in ReturnedPercents :
        /\ 0 <= pct
        /\ pct <= 10000
        /\ OrZero(req.t_m2) = 0 => pct = 0

C16_Witness ==
    /\ gpc = "returned"
    /\ req.mode = "comparison"
    /\ ~runs[1].error
    /\ ~runs[2].error
    /\ req.t_m2 = 20000
    /\ runs[1].damagePercent = 0
    /\ runs[2].damagePercent = 10000
    /\ analysis_result.value.damage_percent = 10000

\* C17: in every result the estimator returns (single-window mode and each
\* branch of comparison mode, error results included) the returned
\* estimated_cost is the product of the returned damaged_area_ha and the
\* request's cost_per_ha, exactly.
C17_CostIsExactProduct ==
    analysis_result.returned =>
        analysis_result.value.estimated_cost =
            FloatMul(FloatOf(analysis_result.value.damaged_area_ha),
                     req.cost_per_ha)

\* before_date and after_date are 30 days from the incident date.
LabelsAroundIncident ==
    LET D == strptime(req.incident_date)
    IN  /\ strptime(req.before_date) = D - WindowDays
        /\ strptime(req.after_date) = D + WindowDays
        /\ req.incident_date = <<2024, 9, 15>> =>
               /\ req.before_date = <<2024, 8, 16>>
               /\ req.after_date = <<2024, 10, 15>>

\* C18: in comparison mode with incident date D the labels are
\* before_date = D - 30 days and after_date = D + 30 days (2024-08-16 and
\* 2024-10-15 for D = 2024-09-15), and every composite built by the two
\* calls of analyze_farm covers only dates inside [D - 30 days, D + 30 days].
C18_WindowsAroundIncident ==
    req.mode = "comparison" =>
        /\ LabelsAroundIncident
        /\ \A i \in 1..Len(mosaics) :
               /\ strptime(req.incident_date) - WindowDays <= mosaics[i].start
               /\ mosaics[i].end <= strptime(req.incident_date) + WindowDays

\* The numbers of a finished call of analyze_farm that had data.
RunNumbersReported(r) ==
    /\ analysis_result.value.damaged_area_ha = r.damageAreaHa
    /\ analysis_result.value.total_area_ha = r.farmAreaHa
    /\ analysis_result.value.damage_percent = r.damagePercent

\* C19: in comparison mode, when exactly one of the two runs reports no
\* data, the damaged area, total area and damage percent returned are those
\* of the other run alone, the overlay of the period with data is that
\* run's own overlay, the overlay of the period without data is empty, and
\* the result carries no error field.
C19_OnePeriodMissing ==
    (req.mode = "comparison" /\ analysis_result.returned) =>
        /\ (runs[1].error /\ ~runs[2].error) =>
              /\ RunNumbersReported(runs[2])
              /\ analysis_result.value.overlay_after_b64 = runs[2].overlay_b64
              /\ analysis_result.value.overlay_before_b64 = EmptyOverlay
              /\ ~analysis_result.value.error
        /\ (~runs[1].error /\ runs[2].error) =>
              /\ RunNumbersReported(runs[1])
              /\ analysis_result.value.overlay_before_b64 = runs[1].overlay_b64
              /\ analysis_result.value.overlay_after_b64 = EmptyOverlay
              /\ ~analysis_result.value.error

C19_Witness ==
    /\ req.mode = "comparison"
    /\ gpc = "accepted"
    /\ ~runs[1].error
    /\ runs[2].error
    /\ runs[1].damageAreaHa = 30
    /\ analysis_result.value.damaged_area_ha = 30
    /\ analysis_result.value.overlay_before_b64 = "image_1"
    /\ analysis_result.value.overlay_after_b64 = EmptyOverlay

\* C20: comparison mode reports the comparison as failed (zero values and
\* an error field, which the analyze route answers with HTTP 400) exactly
\* when both runs report no data; with data from at least one run the
\* result has no error field and the route does not answer 400.
C20_FailedIffBothMissing ==
    (req.mode = "comparison" /\ analysis_result.returned) =>
        /\ analysis_result.value.error <=> (runs[1].error /\ runs[2].error)
        /\ analysis_result.value.error =>
              /\ analysis_result.value.damage_percent = 0
              /\ analysis_result.value.damaged_area_ha = 0
              /\ analysis_result.value.total_area_ha = 0
              /\ analysis_result.value.estimated_cost = ZeroCost
        /\ gpc = "done" => (http_status = 400 /\ analysis_result.value.error)
        /\ gpc = "accepted" => (http_status # 400 /\ ~analysis_result.value.error)

C20_Witness ==
    /\ req.mode = "comparison"
    /\ gpc = "done"
    /\ http_status = 400
    /\ runs[1].error
    /\ runs[2].error
    /\ req.bands[strptime(req.before_date)] = 2
    /\ req.bands[strptime(req.incident_date)] = 0

\* C21: in comparison mode, when both runs have data, the reported damaged
\* area is the absolute difference of the damaged areas of the two runs:
\* never negative, and 0 when both runs report the same damaged area.
C21_AbsoluteDifference ==
    (req.mode = "comparison" /\ analysis_result.returned
        /\ ~runs[1].error /\ ~runs[2].error) =>
        /\ analysis_result.value.damaged_area_ha =
              Max(runs[2].damageAreaHa - runs[1].damageAreaHa,
                  runs[1].damageAreaHa - runs[2].damageAreaHa)
        /\ analysis_result.value.damaged_area_ha >= 0
        /\ runs[1].damageAreaHa = runs[2].damageAreaHa =>
              analysis_result.value.damaged_area_ha = 0

C21_Witness ==
    /\ req.mode = "comparison"
    /\ analysis_result.returned
    /\ ~runs[1].error
    /\ ~runs[2].error
    /\ runs[1].damageAreaHa = 200
    /\ runs[2].damageAreaHa = 30
    /\ analysis_result.value.damaged_area_ha = 170

\* ------------------------------------------------------------------------
\* Part 3: the Property, Geometry and SatelliteAnalysis tables and the
\* handlers that write them, app/routes/property.py and
\* app/routes/satellite.py.  A handler is one step: it commits at its end
\* (analyze_property_damage commits twice, with nothing able to fail in
\* between but the database itself).
\* ------------------------------------------------------------------------
MaxIds == 4               \* primary keys handed out in a behaviour


\* Bodies of POST /api/properties: PropertyCreate
PropertyCreates ==
    [name : {"farm"}, crop_type : {NoneStr}, area_ha : {None},
     estimated_value : {None}, coordinates : {"ring_a", "ring_b"}]

\* Bodies of PUT /api/properties/{id}: PropertyUpdate, every field optional
PropertyUpdates ==
    {[name |-> NoneStr, crop_type |-> NoneStr, area_ha |-> None,
      estimated_value |-> None],
     [name |-> "renamed", crop_type |-> NoneStr, area_ha |-> None,
      estimated_value |-> None],
     [name |-> "renamed", crop_type |-> "wheat", area_ha |-> 2,
      estimated_value |-> 1000]}

\* The total area the remote reduction finds for a stored geometry.
GeometryAreaM2(coordinates) == IF coordinates = "ring_a" THEN 20000 ELSE 3000

\* Inputs of the analyze route in this part.
StoreIncidentDates == {<<2024, 9, 15>>}

StoreCosts == {5000}

\* What the two overlay downloads do (a transport exception leaves the
\* same overlay_b64 as an error status).
StoreFetches == {"http_200", "http_error"}

\* The damaged areas (square metres) the two calls find.
StoreDamaged == {<<1000, 3000>>}

\* f without the row id
RemoveRow(f, id) == [i \in (DOMAIN f) \ {id} |-> f[i]]

\* f with the row under id
PutRow(f, id, row) == [i \in (DOMAIN f) \cup {id} |-> IF i = id THEN row ELSE f[i]]

\* Variant of OwnedProperty that looks the property up by id alone.
OwnedProperty_AnyUser(property_id, user_id) ==
    property_id \in DOMAIN property_rows

\* select(Property).where(Property.id == property_id, Property.user_id == user_id)
OwnedProperty(property_id, user_id) ==
    /\ property_id \in DOMAIN property_rows
    /\ property_rows[property_id].user_id = user_id

\* create_property
CreateProperty ==
    /\ next_id + 2 <= MaxIds
    /\ \E user_id \in Users, data \in PropertyCreates :
         LET geometry_id == next_id + 1
             property_id == next_id + 2
         IN  /\ geometry_rows' = PutRow(geometry_rows, geometry_id,
                                        [coordinates |-> data.coordinates])
             /\ property_rows' =
                   PutRow(property_rows, property_id,
                          [user_id |-> user_id, name |-> data.name,
                           geometry_id |-> geometry_id,
                           crop_type |-> data.crop_type,
                           area_ha |-> data.area_ha,
                           estimated_value |-> data.estimated_value,
                           risk_score |-> 0, last_analysed_at |-> None])
             /\ last_call' = [op |-> "create_property", status |-> 200,
                              outcome |-> "ok"]
    /\ next_id' = next_id + 2
    /\ UNCHANGED <<monitorVars, otherVars, estimatorVars, analysis_rows, clock>>

\* prop after the four `if data.x is not None` assignments
UpdatedRow(prop, data) ==
    [prop EXCEPT
       !.name = IF data.name # NoneStr THEN data.name ELSE @,
       !.crop_type = IF data.crop_type # NoneStr THEN data.crop_type ELSE @,
       !.area_ha = IF data.area_ha # None THEN data.area_ha ELSE @,
       !.estimated_value =
           IF data.estimated_value # None THEN data.estimated_value ELSE @]

\* update_property
UpdateProperty ==
    /\ \E user_id \in Users, property_id \in 1..MaxIds, data \in PropertyUpdates :
         IF ~OwnedProperty(property_id, user_id)
         THEN /\ last_call' = [op |-> "update_property", status |-> 404,
                               outcome |-> "not_found"]
              /\ UNCHANGED property_rows
         ELSE /\ property_rows' =
                    PutRow(property_rows, property_id,
                           UpdatedRow(property_rows[property_id], data))
              /\ last_call' = [op |-> "update_property", status |-> 200,
                               outcome |-> "ok"]
    /\ UNCHANGED <<monitorVars, otherVars, estimatorVars, geometry_rows, analysis_rows,
                   next_id, clock>>

\* delete(SatelliteAnalysis).where(SatelliteAnalysis.property_id == property_id)
WithoutAnalysesOf(rows, property_id) ==
    [i \in {j \in DOMAIN rows : rows[j].property_id # property_id} |-> rows[i]]

\* Variant of DeleteProperty that leaves the geometry row in place.
DeleteProperty_KeepsGeometry ==
    /\ \E user_id \in Users, property_id \in 1..MaxIds :
         IF ~OwnedProperty(property_id, user_id)
         THEN /\ last_call' = [op |-> "delete_property", status |-> 404,
                               outcome |-> "not_found"]
              /\ UNCHANGED <<property_rows, geometry_rows, analysis_rows>>
         ELSE /\ analysis_rows' = WithoutAnalysesOf(analysis_rows, property_id)
              /\ property_rows' = RemoveRow(property_rows, property_id)
              /\ UNCHANGED geometry_rows
              /\ last_call' = [op |-> "delete_property", status |-> 200,
                               outcome |-> "ok"]
    /\ UNCHANGED <<monitorVars, otherVars, estimatorVars, next_id, clock>>

\* delete_property
DeleteProperty ==
    /\ \E user_id \in Users, property_id \in 1..MaxIds :
         IF ~OwnedProperty(property_id, user_id)
         THEN /\ last_call' = [op |-> "delete_property", status |-> 404,
                               outcome |-> "not_found"]
              /\ UNCHANGED <<property_rows, geometry_rows, analysis_rows>>
         ELSE LET geometry_id == property_rows[property_id].geometry_id
              IN  /\ analysis_rows' = WithoutAnalysesOf(analysis_rows, property_id)
                  /\ property_rows' = RemoveRow(property_rows, property_id)
                  /\ geometry_rows' =
                        IF geometry_id \in DOMAIN geometry_rows
                        THEN RemoveRow(geometry_rows, geometry_id)
                        ELSE geometry_rows
                  /\ last_call' = [op |-> "delete_property", status |-> 200,
                                   outcome |-> "ok"]
    /\ UNCHANGED <<monitorVars, otherVars, estimatorVars, next_id, clock>>

\* get_property (and get_properties, analysis lists): reads only
ReadProperty ==
    /\ \E user_id \in Users, property_id \in 1..MaxIds :
         last_call' = [op |-> "get_property",
                       status |-> IF OwnedProperty(property_id, user_id)
                                  THEN 200 ELSE 404,
                       outcome |-> IF OwnedProperty(property_id, user_id)
                                   THEN "ok" ELSE "not_found"]
    /\ UNCHANGED <<monitorVars, otherVars, estimatorVars, property_rows, geometry_rows,
                   analysis_rows, next_id, clock>>

\* The arguments of analyze_property_gee_comparison and what the remote
\* service holds for them, in the shape of req.
ComparisonRequest(incident_date, cost_per_ha, t_m2, bands) ==
    [mode |-> "comparison", incident_date |-> incident_date,
     before_date |-> BeforeDate(incident_date),
     after_date |-> AfterDate(incident_date),
     cost_per_ha |-> cost_per_ha, geometry_is_dict |-> TRUE,
     t_m2 |-> t_m2, bands |-> bands]

\* The starts of the three date windows the two calls read.
WindowStarts(incident_date) ==
    {strptime(BeforeDate(incident_date)), strptime(incident_date),
     strptime(AfterDate(incident_date))}

\* analyze_farm, call k of request r, once init_gee returned true
analyze_farm(r, k, d_m2, fetch) ==
    IF NoBands(BandCount(r, get_mosaic(RunDates(r, k)[1])),
               BandCount(r, get_mosaic(RunDates(r, k)[2])))
    THEN FarmNoData
    ELSE FarmResult(k, d_m2, r.t_m2, fetch)

\* analyze_property_gee_comparison, once init_gee returned true
analyze_property_gee_comparison(r, d1_m2, fetch1, d2_m2, fetch2) ==
    ComparisonResult(analyze_farm(r, 1, d1_m2, fetch1),
                     analyze_farm(r, 2, d2_m2, fetch2),
                     r.before_date, r.after_date, r.incident_date,
                     r.cost_per_ha)

\* SatelliteAnalysis(...) as the route fills it
NewAnalysis(property_id, result, created_at) ==
    [property_id |-> property_id, analysis_type |-> "sar_comparison",
     date_range_start |-> strptime(result.before_date),
     date_range_end |-> strptime(result.after_date),
     damage_percent |-> result.damage_percent,
     damaged_area_ha |-> result.damaged_area_ha,
     total_area_ha |-> result.total_area_ha,
     estimated_cost |-> result.estimated_cost,
     overlay_image_b64 |-> result.overlay_after_b64,
     overlay_before_b64 |-> result.overlay_before_b64,
     overlay_after_b64 |-> result.overlay_after_b64,
     created_at |-> created_at]

\* AnalysisResponse(...) validates: overlay_before_b64 and overlay_after_b64
\* are declared str, and None is not a str.
ResponseValidates(result) ==
    /\ result.overlay_before_b64 # NoneOverlay
    /\ result.overlay_after_b64 # NoneOverlay

\* The analyze route did not reach the tables.
AnalyzeRejected(user_id, property_id, status, reason) ==
    /\ last_call' = [op |-> "analyze", user_id |-> user_id,
                     property_id |-> property_id, status |-> status,
                     outcome |-> reason]
    /\ UNCHANGED <<property_rows, geometry_rows, analysis_rows, next_id, clock>>

\* Variant of AnalyzeStored that stamps the property before the error test.
AnalyzeStored_StampFirst(user_id, property_id, result, result_if_fetched) ==
    /\ property_rows' =
          PutRow(property_rows, property_id,
                 [property_rows[property_id] EXCEPT !.last_analysed_at = clock + 1])
    /\ clock' = clock + 1
    /\ IF result.error
       THEN /\ last_call' = [op |-> "analyze", user_id |-> user_id,
                             property_id |-> property_id, status |-> 400,
                             outcome |-> "no_data", result |-> result,
                             result_if_fetched |-> result_if_fetched]
            /\ UNCHANGED <<geometry_rows, analysis_rows, next_id>>
       ELSE /\ analysis_rows' =
                  PutRow(analysis_rows, next_id + 1,
                         NewAnalysis(property_id, result, clock + 1))
            /\ next_id' = next_id + 1
            /\ last_call' =
                  [op |-> "analyze", user_id |-> user_id,
                   property_id |-> property_id,
                   status |-> IF ResponseValidates(result) THEN 200 ELSE 500,
                   outcome |-> IF ResponseValidates(result)
                               THEN "ok" ELSE "response_invalid",
                   result |-> result, result_if_fetched |-> result_if_fetched]
            /\ UNCHANGED geometry_rows

\* analyze_property_damage from the test of 'error' on: HTTPException(400),
\* or the new SatelliteAnalysis, the commit, last_analysed_at, the commit,
\* and the AnalysisResponse.
AnalyzeStored(user_id, property_id, result, result_if_fetched) ==
    IF result.error
    THEN /\ last_call' = [op |-> "analyze", user_id |-> user_id,
                          property_id |-> property_id, status |-> 400,
                          outcome |-> "no_data", result |-> result,
                          result_if_fetched |-> result_if_fetched]
         /\ UNCHANGED <<property_rows, geometry_rows, analysis_rows, next_id,
                        clock>>
    ELSE /\ analysis_rows' =
               PutRow(analysis_rows, next_id + 1,
                      NewAnalysis(property_id, result, clock + 1))
         /\ next_id' = next_id + 1
         /\ property_rows' =
               PutRow(property_rows, property_id,
                      [property_rows[property_id] EXCEPT
                          !.last_analysed_at = clock + 1])
         /\ clock' = clock + 1
         /\ last_call' =
               [op |-> "analyze", user_id |-> user_id,
                property_id |-> property_id,
                status |-> IF ResponseValidates(result) THEN 200 ELSE 500,
                outcome |-> IF ResponseValidates(result)
                            THEN "ok" ELSE "response_invalid",
                result |-> result, result_if_fetched |-> result_if_fetched]
         /\ UNCHANGED geometry_rows

\* analyze_property_damage
AnalyzeProperty ==
    /\ next_id < MaxIds
    /\ \E user_id \in Users, property_id \in 1..MaxIds :
         IF ~OwnedProperty(property_id, user_id)
         THEN /\ AnalyzeRejected(user_id, property_id, 404, "not_found")
              /\ UNCHANGED gee_initialized
         ELSE IF property_rows[property_id].geometry_id \notin DOMAIN geometry_rows
         THEN /\ AnalyzeRejected(user_id, property_id, 404, "geometry_not_found")
              /\ UNCHANGED gee_initialized
         ELSE \E env \in InitEnvs :
                LET init == init_gee(gee_initialized, env)
                IN  /\ gee_initialized' = init.initialized
                    /\ IF ~init.returned
                       THEN AnalyzeRejected(user_id, property_id, 500, "init_failed")
                       ELSE \E incident_date \in StoreIncidentDates,
                               cost_per_ha \in StoreCosts,
                               damaged \in StoreDamaged,
                               fetch1 \in StoreFetches,
                               fetch2 \in StoreFetches :
                              \E bands \in [WindowStarts(incident_date) -> {0, 2}] :
                                 LET geometry ==
                                        geometry_rows[property_rows[property_id].geometry_id]
                                     r == ComparisonRequest(
                                            incident_date, cost_per_ha,
                                            GeometryAreaM2(geometry.coordinates),
                                            bands)
                                 IN  AnalyzeStored(
                                        user_id, property_id,
                                        analyze_property_gee_comparison(
                                            r, damaged[1], fetch1, damaged[2], fetch2),
                                        analyze_property_gee_comparison(
                                            r, damaged[1], "http_200", damaged[2], "http_200"))
    /\ UNCHANGED <<monitorVars, otherVars, requestVars>>

InitStore ==
    /\ db_configured = FALSE
    /\ alerts_table = <<>>
    /\ properties_table = <<>>
    /\ InitLocals
    /\ InitEstimator
    /\ InitExtra

NextStore ==
    \/ CreateProperty
    \/ UpdateProperty
    \/ DeleteProperty
    \/ ReadProperty
    \/ AnalyzeProperty

SpecStore == InitStore /\ [][NextStore]_vars

\* ------------------------------------------------------------------------
\* Properties of the tables and their handlers
\* ------------------------------------------------------------------------
\* The estimator returned data to the analyze route in the last call.
AnalyzeGotData ==
    /\ last_call.op = "analyze"
    /\ last_call.outcome \in {"ok", "response_invalid"}

\* C22: an overlay fetch failure is non-fatal: the estimator returns the
\* same damaged area, total area and percent as with the overlay fetched,
\* the overlay field of the failed fetch is empty, and the analyze request
\* that uses the result completes with a result (HTTP 200).
C22_OverlayFailureNonFatal ==
    AnalyzeGotData =>
        /\ last_call.result.damaged_area_ha =
              last_call.result_if_fetched.damaged_area_ha
        /\ last_call.result.total_area_ha =
              last_call.result_if_fetched.total_area_ha
        /\ last_call.result.damage_percent =
              last_call.result_if_fetched.damage_percent
        /\ last_call.result.overlay_before_b64 \in
              {last_call.result_if_fetched.overlay_before_b64, EmptyOverlay}
        /\ last_call.result.overlay_after_b64 \in
              {last_call.result_if_fetched.overlay_after_b64, EmptyOverlay}
        /\ last_call.status = 200

\* The properties that reference geometry g.
OwnersOfGeometry(g) ==
    {p \in DOMAIN property_rows : property_rows[p].geometry_id = g}

\* Every Geometry is referenced by exactly one Property, every Property
\* references a stored Geometry, every analysis belongs to a stored Property.
StoreConsistent ==
    /\ \A g \in DOMAIN geometry_rows : Cardinality(OwnersOfGeometry(g)) = 1
    /\ \A p \in DOMAIN property_rows :
          property_rows[p].geometry_id \in DOMAIN geometry_rows
    /\ \A a \in DOMAIN analysis_rows :
          analysis_rows[a].property_id \in DOMAIN property_rows

\* C28: after every create, update, delete (and analyze) step, every stored
\* Geometry is referenced by exactly one Property and no analysis belongs
\* to a deleted Property; a new Property comes with a Geometry that did not
\* exist before; a Property that stays keeps its geometry reference and a
\* Geometry that stays keeps its coordinates.
C28_GeometryOwnedOneToOne ==
    [][/\ StoreConsistent'
       /\ \A p \in (DOMAIN property_rows') \ (DOMAIN property_rows) :
             /\ property_rows'[p].geometry_id \notin DOMAIN geometry_rows
             /\ property_rows'[p].geometry_id > next_id
       /\ \A p \in (DOMAIN property_rows) \cap (DOMAIN property_rows') :
             property_rows'[p].geometry_id = property_rows[p].geometry_id
       /\ \A g \in (DOMAIN geometry_rows) \cap (DOMAIN geometry_rows') :
             geometry_rows'[g] = geometry_rows[g]]_vars

\* The one property, which had an analysis, was deleted: nothing is left.
C28_Witness ==
    /\ last_call.op = "delete_property"
    /\ last_call.status = 200
    /\ next_id = 3
    /\ property_rows = <<>>
    /\ geometry_rows = <<>>
    /\ analysis_rows = <<>>

\* C29: risk_score and last_analysed_at of a Property change only when an
\* estimator run for that property completed with data: update_property,
\* the read endpoints, and an analyze request that is rejected (property
\* not found, initialization failed, no data) leave both unchanged, and a
\* successful analyze request sets last_analysed_at to the current time.
C29_OnlyEstimatorStamps ==
    [][/\ \A p \in (DOMAIN property_rows) \cap (DOMAIN property_rows') :
             /\ property_rows'[p].risk_score = property_rows[p].risk_score
             /\ property_rows'[p].last_analysed_at # property_rows[p].last_analysed_at
                   => /\ AnalyzeGotData'
                      /\ last_call'.property_id = p
                      /\ Cardinality(DOMAIN analysis_rows') =
                            Cardinality(DOMAIN analysis_rows) + 1
       /\ \A p \in (DOMAIN property_rows') \ (DOMAIN property_rows) :
             /\ property_rows'[p].risk_score = 0
             /\ property_rows'[p].last_analysed_at = None
       /\ (last_call'.op = "analyze" /\ last_call'.outcome = "ok") =>
             /\ property_rows'[last_call'.property_id].last_analysed_at = clock'
             /\ clock' > clock
             /\ property_rows[last_call'.property_id].last_analysed_at < clock']_vars

\* A property analysed for the second time, after an update in between.
C29_Witness ==
    /\ last_call.op = "analyze"
    /\ last_call.outcome = "ok"
    /\ clock = 2
    /\ property_rows[last_call.property_id].last_analysed_at = 2
    /\ property_rows[last_call.property_id].name = "renamed"

\* The analysis rows added by a step.
NewAnalysisIds == (DOMAIN analysis_rows') \ (DOMAIN analysis_rows)

\* C30: an analyze request writes only when the requesting user owns the
\* property and the comparison yields data: rejected requests (property not
\* found for the user, geometry missing, initialization failure, error in
\* the comparison result) create no SatelliteAnalysis row and leave
\* last_analysed_at as it was; a successful request creates exactly one new
\* row, for that property; rows that exist are never altered by it.
C30_AnalyzeWritesOnlyOnData ==
    [][last_call'.op = "analyze" =>
         /\ \A a \in (DOMAIN analysis_rows) \cap (DOMAIN analysis_rows') :
               analysis_rows'[a] = analysis_rows[a]
         /\ DOMAIN analysis_rows \subseteq DOMAIN analysis_rows'
         /\ last_call'.outcome \in {"not_found", "geometry_not_found",
                                    "init_failed", "no_data"} =>
               /\ analysis_rows' = analysis_rows
               /\ property_rows' = property_rows
               /\ geometry_rows' = geometry_rows
         /\ last_call'.outcome = "not_found" <=>
               ~(/\ last_call'.property_id \in DOMAIN property_rows
                 /\ property_rows[last_call'.property_id].user_id =
                       last_call'.user_id)
         /\ last_call'.outcome = "no_data" <=>
               (/\ last_call'.outcome \notin {"not_found", "geometry_not_found",
                                              "init_failed"}
                /\ last_call'.result.error)
         /\ last_call'.outcome = "ok" =>
               /\ Cardinality(NewAnalysisIds) = 1
               /\ \A a \in NewAnalysisIds :
                     /\ analysis_rows'[a].property_id = last_call'.property_id
                     /\ analysis_rows'[a].damaged_area_ha =
                           last_call'.result.damaged_area_ha
               /\ geometry_rows' = geometry_rows
               /\ \A p \in DOMAIN property_rows :
                     p # last_call'.property_id =>
                        (p \in DOMAIN property_rows'
                            /\ property_rows'[p] = property_rows[p])]_vars

\* A second analysis of a property was stored next to the first one, after
\* a request of the other user for the same property was turned down.
C30_Witness ==
    /\ last_call.op = "analyze"
    /\ last_call.outcome = "ok"
    /\ Cardinality(DOMAIN analysis_rows) = 2
    /\ \A a \in DOMAIN analysis_rows :
          analysis_rows[a].property_id = last_call.property_id

\* ------------------------------------------------------------------------
\* Part 4: the hotspot ingestion as a state machine.  A client is
\* constructed, its get_active_fires is called, get_fire_data is called.
\* ------------------------------------------------------------------------
ApiKeys == {"", "key", NoneStr}

DayRangeArgs == (-2)..MaxDayRangeArg

BBoxes == {<<20, 43, 30, 48>>, <<20, 43, 30>>}

Todays == {strptime(<<2024, 3, 1>>)}

EndDates ==
    {[kind |-> "none"],
     [kind |-> "date", days |-> strptime(<<2024, 1, 5>>)],
     [kind |-> "str", text |-> <<2024, 12, 31>>],
     [kind |-> "str", text |-> <<2024, 13, 1>>]}

EndDateStrings == {<<2024, 1, 5>>, <<2024, 2, 30>>}

\* client = FIRMSClient(api_key=..., day_range=...)
NewClient ==
    /\ \E api_key \in ApiKeys, day_range \in DayRangeArgs :
          /\ firms_client' = FIRMSClient(api_key, DefaultSource, day_range,
                                         DefaultTimeout)
          /\ firms_call' = [op |-> "init", day_range |-> day_range]
    /\ UNCHANGED <<monitorVars, estimatorVars, storeVars, geoVars, raceVars>>

\* client.get_active_fires(bbox, end_date)
GetActiveFires ==
    /\ \E bbox \in BBoxes, end_date \in EndDates, today \in Todays,
          response \in FeedResponses :
          firms_call' = [op       |-> "get_active_fires",
                         api_key  |-> firms_client.api_key,
                         bbox     |-> bbox,
                         end_date |-> end_date,
                         today    |-> today,
                         response |-> response,
                         result   |-> get_active_fires(firms_client, bbox,
                                         end_date, today, response)]
    /\ UNCHANGED <<firms_client, monitorVars, estimatorVars, storeVars,
                   geoVars, raceVars>>

\* await get_fire_data(bbox, end_date, api_key)
GetFireData ==
    /\ \E bbox \in BBoxes, end_date \in EndDateStrings, api_key \in ApiKeys,
          today \in Todays, response \in FeedResponses :
          firms_call' = [op       |-> "get_fire_data",
                         api_key  |-> IF api_key = NoneStr THEN "" ELSE api_key,
                         bbox     |-> bbox,
                         end_date |-> end_date,
                         today    |-> today,
                         response |-> response,
                         result   |-> get_fire_data(bbox, end_date, api_key,
                                                    today, response)]
    /\ UNCHANGED <<firms_client, monitorVars, estimatorVars, storeVars,
                   geoVars, raceVars>>

InitFirms ==
    /\ db_configured = FALSE
    /\ alerts_table = <<>>
    /\ properties_table = <<>>
    /\ InitLocals
    /\ InitEstimator
    /\ InitExtra

NextFirms ==
    \/ NewClient
    \/ GetActiveFires
    \/ GetFireData

SpecFirms == InitFirms /\ [][NextFirms]_vars

\* ------------------------------------------------------------------------
\* Properties of the hotspot ingestion
\* ------------------------------------------------------------------------
\* The fire points that get_fire_data makes of the placeholder rows.
MockFirePoints ==
    << [lat |-> 45435, lon |-> 27722, confidence |-> "high",
        brightness |-> 3205],
       [lat |-> 45441, lon |-> 27735, confidence |-> "nominal",
        brightness |-> 3152] >>

\* C23: without credentials (empty API key) the ingestion returns the same
\* non-empty fixed fallback set whatever the bounding box and the date are,
\* never an empty sequence, never an exception, and it makes no request to
\* the feed.
C23_NoKeyGivesFallback ==
    /\ (firms_call.op = "get_fire_data" /\ firms_call.api_key = "") =>
          /\ ~firms_call.result.raised
          /\ firms_call.result.fire_points = MockFirePoints
          /\ Len(firms_call.result.fire_points) > 0
          /\ firms_call.result.requests = <<>>
    /\ (firms_call.op = "get_active_fires" /\ firms_call.api_key = "") =>
          /\ ~firms_call.result.raised
          /\ firms_call.result.frame = MockFires
          /\ Len(firms_call.result.frame) > 0
          /\ firms_call.result.requests = <<>>

\* get_fire_data was called without a key, with a bounding box of three
\* numbers and a date string that does not parse.
C23_Witness ==
    /\ firms_call.op = "get_fire_data"
    /\ firms_call.api_key = ""
    /\ Len(firms_call.bbox) = 3
    /\ ~ValidDateStr(firms_call.end_date)
    /\ firms_call.result.fire_points = MockFirePoints

\* The feed was asked and the request failed, or the table it answered
\* lacks a required column.
FeedFailedOrMalformed ==
    /\ firms_call.op = "get_active_fires"
    /\ firms_call.api_key # ""
    /\ firms_call.result.requests # <<>>
    /\ \/ firms_call.response.kind \in {"network_error", "http_error"}
       \/ /\ firms_call.response.kind = "csv"
          /\ firms_call.response.nrows > 0
          /\ ~({"latitude", "longitude"} \subseteq firms_call.response.columns)

\* C24: with credentials, when the request to the feed fails (network
\* error or HTTP error status) or the response lacks a required latitude
\* or longitude column, get_active_fires returns the fixed placeholder
\* points, not an empty result and not an exception.
C24_FailureGivesPlaceholders ==
    FeedFailedOrMalformed =>
        /\ ~firms_call.result.raised
        /\ firms_call.result.frame = MockFires
        /\ Len(firms_call.result.frame) > 0

\* C24, the part that the code has: a failed request (network error, HTTP
\* error status, a body that does not parse) gives the placeholder points.
C24_RequestFailureGivesPlaceholders ==
    (/\ firms_call.op = "get_active_fires"
     /\ firms_call.result.requests # <<>>
     /\ firms_call.response.kind # "csv") =>
        /\ ~firms_call.result.raised
        /\ firms_call.result.frame = MockFires

\* A table with rows but without the latitude column came back, and the
\* call returned no row at all.
C24_MissingColumnGivesEmpty ==
    /\ FeedFailedOrMalformed
    /\ firms_call.response.kind = "csv"
    /\ "latitude" \notin firms_call.response.columns
    /\ firms_call.result.frame = <<>>
    /\ ~firms_call.result.raised

\* The date at which the window of the last call of get_active_fires ends.
EndDateOfCall ==
    CASE firms_call.op = "get_fire_data" ->
            IF ValidDateStr(firms_call.end_date)
            THEN strptime(firms_call.end_date) ELSE firms_call.today
      [] firms_call.end_date.kind = "none" -> firms_call.today
      [] firms_call.end_date.kind = "date" -> firms_call.end_date.days
      [] OTHER -> strptime(firms_call.end_date.text)

\* The day_range of the client that made the last call.
DayRangeOfCall ==
    IF firms_call.op = "get_fire_data" THEN DefaultDayRange
    ELSE firms_client.day_range

\* C25: the client's day_range lies in [1, 10] whatever integer was given
\* (below 1 it is 1, above 10 it is 10, in between it is kept), and every
\* query asks the feed for that number of days, the last of them being
\* the end date.
C25_DayRangeClamped ==
    /\ firms_client.day_range \in 1..10
    /\ firms_call.op = "init" =>
          /\ firms_call.day_range < 1 => firms_client.day_range = 1
          /\ firms_call.day_range > 10 => firms_client.day_range = 10
          /\ firms_call.day_range \in 1..10 =>
                firms_client.day_range = firms_call.day_range
    /\ firms_call.op \in {"get_active_fires", "get_fire_data"} =>
          \A i \in 1..Len(firms_call.result.requests) :
             LET url == firms_call.result.requests[i]
             IN  /\ url.day_range = DayRangeOfCall
                 /\ url.day_range \in 1..10
                 /\ strptime(url.start_date) + (url.day_range - 1) =
                       EndDateOfCall

\* A client built with a day_range above 10 asked the feed for the ten
\* days that end on 2024-01-05.
C25_Witness ==
    /\ firms_call.op = "get_active_fires"
    /\ firms_client.day_range = 10
    /\ firms_call.end_date = [kind |-> "date", days |-> strptime(<<2024, 1, 5>>)]
    /\ Len(firms_call.result.requests) = 1
    /\ firms_call.result.requests[1].day_range = 10
    /\ firms_call.result.requests[1].start_date = <<2023, 12, 27>>

\* A client was built with a day_range below 1.
C25_BelowOne ==
    /\ firms_call.op = "init"
    /\ firms_call.day_range < 1
    /\ firms_client.day_range = 1

\* ------------------------------------------------------------------------
\* Part 5: the distance of the alerts route (app/routes/alerts.py)
\*
\* calculate_distance_km in two dimensions, in fixed point.  Coordinates
\* are whole degrees, multiples of 30; sines and cosines are thousandths,
\* read from a table in steps of 15 degrees; the haversine term a is in
\* millionths.  The angle c is found in the same table, so a distance is
\* a multiple of the 30 degree arc, in metres.
\* ------------------------------------------------------------------------
MetresPerDegree == 111195     \* R * pi / 180 for R = 6371.0 km

SinTable == <<0, 259, 500, 707, 866, 966, 1000>>

\* math.sin of x degrees, x a multiple of 15 in -90..90
SinMilli(x) ==
    IF x < 0 THEN -SinTable[((-x) \div 15) + 1] ELSE SinTable[(x \div 15) + 1]

\* math.cos of x degrees, x a multiple of 15 in -90..90
CosMilli(x) == SinTable[((90 - Abs(x)) \div 15) + 1]

\* 2 * atan2(sqrt(a), sqrt(1 - a)) in degrees: twice the angle of the
\* table whose squared sine is nearest to a.
HaversineAngle(a) ==
    LET err(k) == Abs(SinTable[k + 1] * SinTable[k + 1] - a)
        best   == {k \in 0..6 : \A j \in 0..6 : err(k) <= err(j)}
    IN  2 * 15 * (CHOOSE k \in best : \A j \in best : k <= j)

\* Variant of the haversine term that takes the cosine of the first
\* latitude twice.
HaversineTerm_FirstLatTwice(lat1, lng1, lat2, lng2) ==
    LET sin_lat == SinMilli((lat2 - lat1) \div 2)
        sin_lng == SinMilli((lng2 - lng1) \div 2)
    IN  sin_lat * sin_lat
          + RoundDiv(CosMilli(lat1) * CosMilli(lat1), 1000)
              * RoundDiv(sin_lng * sin_lng, 1000)

\* a = sin(delta_lat / 2)**2
\*       + cos(lat1_rad) * cos(lat2_rad) * sin(delta_lng / 2)**2
HaversineTerm(lat1, lng1, lat2, lng2) ==
    LET sin_lat == SinMilli((lat2 - lat1) \div 2)
        sin_lng == SinMilli((lng2 - lng1) \div 2)
    IN  sin_lat * sin_lat
          + RoundDiv(CosMilli(lat1) * CosMilli(lat2), 1000)
              * RoundDiv(sin_lng * sin_lng, 1000)

\* calculate_distance_km of routes/alerts.py, in metres
calculate_distance_km_2d(lat1, lng1, lat2, lng2) ==
    MetresPerDegree * HaversineAngle(HaversineTerm(lat1, lng1, lat2, lng2))

GeoPoints == {<<lat, lng>> : lat \in {-60, 0, 30, 60}, lng \in {-90, 0, 30}}

\* radius_km of the /near query (1 km, the default 50 km, 500 km) and
\* radius_km of an alert row (none, 5 km, 4000 km)
GeoRadii == {<<50000, None>>, <<500000, 5000>>, <<1000, 4000000>>}

\* The distance of a property's centre and an alert, as the /near route
\* and the monitor take it, and the same with the two points exchanged.
ComputeDistance ==
    /\ \E a \in GeoPoints, b \in GeoPoints, radii \in GeoRadii :
          geo_call' = [op       |-> "distance",
                       a        |-> a,
                       b        |-> b,
                       ab       |-> calculate_distance_km_2d(a[1], a[2], b[1], b[2]),
                       ba       |-> calculate_distance_km_2d(b[1], b[2], a[1], a[2]),
                       aa       |-> calculate_distance_km_2d(a[1], a[2], a[1], a[2]),
                       query_radius_km |-> radii[1],
                       alert_radius_km |-> radii[2]]
    /\ UNCHANGED <<monitorVars, estimatorVars, storeVars, firmsVars, raceVars>>

InitGeo ==
    /\ db_configured = FALSE
    /\ alerts_table = <<>>
    /\ properties_table = <<>>
    /\ InitLocals
    /\ InitEstimator
    /\ InitExtra

NextGeo == ComputeDistance

SpecGeo == InitGeo /\ [][NextGeo]_vars

\* ------------------------------------------------------------------------
\* Properties of the distance
\* ------------------------------------------------------------------------
\* C26: the distance is symmetric and zero on identical points, so whether
\* an alert counts as near a property (distance <= radius in the /near
\* route, IsNearby and IsWithinRadius in the monitor) does not depend on
\* the order of the two points.
C26_DistanceSymmetric ==
    geo_call.op = "distance" =>
        /\ geo_call.ab = geo_call.ba
        /\ geo_call.aa = 0
        /\ geo_call.a = geo_call.b => geo_call.ab = 0
        /\ (geo_call.ab <= geo_call.query_radius_km) =
              (geo_call.ba <= geo_call.query_radius_km)
        /\ IsNearby(Round2(geo_call.ab), geo_call.alert_radius_km) =
              IsNearby(Round2(geo_call.ba), geo_call.alert_radius_km)
        /\ IsWithinRadius(Round2(geo_call.ab), geo_call.alert_radius_km) =
              IsWithinRadius(Round2(geo_call.ba), geo_call.alert_radius_km)
        /\ geo_call.a[2] = geo_call.b[2] =>
              geo_call.ab =
                 calculate_distance_km(MetresPerDegree * geo_call.a[1], 0,
                                       MetresPerDegree * geo_call.b[1], 0)
        /\ calculate_distance_km(geo_call.a[1], 0, geo_call.b[1], 0) =
              calculate_distance_km(geo_call.b[1], 0, geo_call.a[1], 0)

\* Two points of different latitude and longitude, 60 degrees of arc
\* apart, within the 4000 km radius of the alert in neither order.
C26_Witness ==
    /\ geo_call.op = "distance"
    /\ geo_call.a = <<60, -90>>
    /\ geo_call.b = <<0, 30>>
    /\ geo_call.ab > 0
    /\ geo_call.ab = geo_call.ba
    /\ geo_call.alert_radius_km = 4000000
    /\ ~IsNearby(Round2(geo_call.ab), geo_call.alert_radius_km)

\* ------------------------------------------------------------------------
\* Part 6: analysis requests on the event loop
\*   app/routes/satellite.py       (analyze_property_damage, a coroutine)
\*   app/services/gee_service.py   (init_gee, analyze_farm: plain functions)
\*
\* The route is a coroutine of the server's one event loop.  It suspends
\* at its awaits of the storage session (lines 79-93 and 145-148); from
\* line 104 to the return of analyze_property_gee_comparison no await
\* suspends it: that coroutine calls analyze_farm and init_gee as plain
\* functions.  init_gee is split into its steps to show what can come
\* between the read of _initialized and its assignment.
\* ------------------------------------------------------------------------
\* Variant of EventLoopTakes for a server that runs the handlers on
\* threads that preempt each other.
EventLoopTakes_Preempts(r) == TRUE

\* The event loop resumes a suspended coroutine only when no coroutine is
\* running.
EventLoopTakes(r) == loop_owner = "free"

\* The request is between the read of _initialized (line 16) and the end
\* of init_gee.
Initializing(r) == rpc[r] \in {"loading", "handshaking"}

\* The call of init_gee that request r made past the flag check.
CallOf(r) ==
    LET i == CHOOSE k \in 1..Len(init_calls) : init_calls[k].request = r
    IN  init_gee(FALSE, init_calls[i].env)

\* The request arrives; the handler runs to its first await (the lookup
\* of the property) and is suspended there.
RArrive(r) ==
    /\ rpc[r] = "idle"
    /\ loop_owner = "free"
    /\ rpc' = [rpc EXCEPT ![r] = "in_flight"]
    /\ UNCHANGED <<loop_owner, init_calls, gee_initialized>>
    /\ UNCHANGED <<monitorVars, requestVars, storeVars, firmsVars, geoVars>>

\* The lookups are done, the loop resumes the handler, which runs to the
\* first lines of init_gee: `if _initialized: return True`.
RCheck(r) ==
    /\ rpc[r] = "in_flight"
    /\ EventLoopTakes(r)
    /\ loop_owner' = r
    /\ IF gee_initialized
       THEN /\ rpc' = [rpc EXCEPT ![r] = "computing"]
            /\ UNCHANGED init_calls
       ELSE \E env \in InitEnvs :
               /\ rpc' = [rpc EXCEPT ![r] = "loading"]
               /\ init_calls' = Append(init_calls, [request |-> r, env |-> env])
    /\ UNCHANGED gee_initialized
    /\ UNCHANGED <<monitorVars, requestVars, storeVars, firmsVars, geoVars>>

\* os.path.exists(KEY_PATH) and Credentials.from_service_account_file
RLoadCredentials(r) ==
    /\ rpc[r] = "loading"
    /\ loop_owner = r
    /\ rpc' = [rpc EXCEPT ![r] = IF CallOf(r).handshake THEN "handshaking"
                                 ELSE "failed"]
    /\ UNCHANGED <<loop_owner, init_calls, gee_initialized>>
    /\ UNCHANGED <<monitorVars, requestVars, storeVars, firmsVars, geoVars>>

\* ee.Initialize(credentials); _initialized = True
RHandshake(r) ==
    /\ rpc[r] = "handshaking"
    /\ loop_owner = r
    /\ gee_initialized' = (gee_initialized \/ CallOf(r).initialized)
    /\ rpc' = [rpc EXCEPT ![r] = IF CallOf(r).returned THEN "computing"
                                 ELSE "failed"]
    /\ UNCHANGED <<loop_owner, init_calls>>
    /\ UNCHANGED <<monitorVars, requestVars, storeVars, firmsVars, geoVars>>

\* The estimator returns; the handler goes on to its next await (the
\* commit, or the answer) and leaves the loop.
RFinishRun(r) ==
    /\ rpc[r] = "computing"
    /\ loop_owner = r
    /\ rpc' = [rpc EXCEPT ![r] = "done"]
    /\ loop_owner' = "free"
    /\ UNCHANGED <<init_calls, gee_initialized>>
    /\ UNCHANGED <<monitorVars, requestVars, storeVars, firmsVars, geoVars>>

\* init_gee returned False: analyze_farm raises, the request ends.
RFail(r) ==
    /\ rpc[r] = "failed"
    /\ loop_owner = r
    /\ rpc' = [rpc EXCEPT ![r] = "done"]
    /\ loop_owner' = "free"
    /\ UNCHANGED <<init_calls, gee_initialized>>
    /\ UNCHANGED <<monitorVars, requestVars, storeVars, firmsVars, geoVars>>

InitRace ==
    /\ db_configured = FALSE
    /\ alerts_table = <<>>
    /\ properties_table = <<>>
    /\ InitLocals
    /\ InitEstimator
    /\ InitExtra

NextRace ==
    \E r \in Requests :
        \/ RArrive(r)
        \/ RCheck(r)
        \/ RLoadCredentials(r)
        \/ RHandshake(r)
        \/ RFinishRun(r)
        \/ RFail(r)

SpecRace == InitRace /\ [][NextRace]_vars

\* ------------------------------------------------------------------------
\* Properties of the first-time initialization
\* ------------------------------------------------------------------------
\* C27 as stated: first-time initialization is a race.  While one request
\* is between the flag check and the flag assignment, another request in
\* flight can pass the 'already initialized' check as well, and then both
\* load the credentials and make the handshake.
C27_CheckCanBePassedTwice ==
    \A r1 \in Requests, r2 \in Requests :
        (r1 # r2 /\ Initializing(r1) /\ rpc[r2] = "in_flight"
            /\ ~gee_initialized) => ENABLED RCheck(r2)

\* C27, amended: the flag is read and set without a lock, but no request
\* passes the check while another one is between the check and the
\* assignment, because init_gee runs without an await on the one event
\* loop.  At most one request is inside the initialization; a later
\* request loads the credentials again only after every earlier
\* initialization has failed; one that finds the flag set loads nothing.
C27_InitIsSerialised ==
    /\ Cardinality({r \in Requests : Initializing(r)}) <= 1
    /\ \A r \in Requests : Initializing(r) => loop_owner = r
    /\ \A i \in 1..Len(init_calls) : \A j \in 1..Len(init_calls) :
          i < j => /\ init_calls[i].env # "ok"
                   /\ rpc[init_calls[i].request] \in {"failed", "done"}
                   /\ init_calls[i].request # init_calls[j].request
    /\ gee_initialized =>
          \A r \in Requests : ~Initializing(r)

\* The client is not initialized, one request is in the handshake and the
\* two other requests are in flight.
C27_Witness ==
    /\ ~gee_initialized
    /\ \E r1 \in Requests :
          /\ rpc[r1] = "handshaking"
          /\ \A r \in Requests \ {r1} : rpc[r] = "in_flight"

\* Two requests that were in flight together both loaded the credentials:
\* the second after the initialization of the first had failed.
C27_SecondLoadAfterFailure ==
    /\ Len(init_calls) = 2
    /\ init_calls[1].env = "handshake_error"
    /\ init_calls[2].env = "ok"
    /\ rpc[init_calls[2].request] = "handshaking"

====
